---- MODULE Spec2Model ----
(***************************************************************************)
(* A state-machine model of strava_to_fittrackee/s2f.py: the Strava        *)
(* connector (activity listing with pagination, stream and gear requests,  *)
(* normalisation into an Activity), the FitTrackee connector (workout      *)
(* listing, GPX and no-GPX uploads), the rate-limit backoff                *)
(* (wait_until_fifteen), the duplicate check                               *)
(* (activity_has_matching_workout) and the two long-running commands,      *)
(* sync_strava_with_fittrackee and download_all_strava_gpx.                *)
(*                                                                         *)
(* Times are seconds.  A Python value that may be None is a sequence of    *)
(* length 0 (None) or 1 (the value).                                       *)
(***************************************************************************)
EXTENDS Integers, Sequences, FiniteSets, TLC

VARIABLES
    mode,        \* the operation the process was started for
    pc,          \* the position of the process in its code
    run,         \* how many times the process has been started
    source,      \* Strava: the athlete's activities, oldest first
    sink,        \* FitTrackee: the workouts, in order of creation
    files,       \* download-all's output folder: the file names in it
    latest_dt,   \* sync: the watermark
    ga,          \* the frame of get_activities: after, per_page, page, all_activities
    activities,  \* what get_activities returned
    to_process,  \* sync: the activities without a matching workout
    cidx,        \* sync: the index of the classification loop
    i,           \* the index of the upload loop / of the download loop
    cur,         \* the local a: the raw activity in work
    cr,          \* the frame of create_activity_from_strava
    act,         \* the Activity it returned
    gear,        \* StravaConnector.gear: the ids of the cached gear
    w,           \* the frame of wait_until_fifteen
    ret,         \* where the process goes on after wait_until_fifteen
    failure,     \* the exception that ended the process
    uploads,     \* history: the upload requests this run was answered 2xx for
    pages_log,   \* history: the pages the current get_activities call received
    prev,        \* history: how the run before this one ended
    sports,      \* FitTrackee: the sport catalog, the answer of GET /sports
    up,          \* the frame of upload_gpx
    gpxfile,     \* the content of the track file upload_gpx is given
    requests,    \* history: the network requests issued, in order
    inst,        \* the instances of the program started: where each one is
    pidfile,     \* the lock file s2f.pid: None, or the pid written to it
    env,         \* the settings in the environment and the token files
    bulk         \* the frame of upload-all and of delete-all

vars == <<mode, pc, run, source, sink, files, latest_dt, ga, activities,
          to_process, cidx, i, cur, cr, act, gear, w, ret, failure, uploads,
          pages_log, prev, sports, up, gpxfile, requests, inst, pidfile, env,
          bulk>>

\* what sync, download-all and the functions they call leave alone here: the
\* connectors are made, one instance holds the lock
outside == <<sports, up, gpxfile, requests, inst, pidfile, env, bulk>>

-----------------------------------------------------------------------------
(* Bounds of the model *)

MaxActs == 2
MaxSink == 2
MaxRuns == 2
PerPage == 2
MaxListed == 4
MaxPerPage == 2
MaxInstances == 3
MaxAnswers == 2
MaxGearCalls == 4
MaxFolder == 2

(* Constants of the program *)

Window == 1800
DaySec == 86400
MinuteSec == 60
Quarter == 900
SleepSec == 10
Epoch == 0
TooManyRequests == 429
MetresPerKm == 1000

None == <<>>
Some(v) == <<v>>

NoGear == ""

-----------------------------------------------------------------------------
(* Sequences *)

Last(s) == s[Len(s)]

Take(s, n) == SubSeq(s, 1, IF n < Len(s) THEN n ELSE Len(s))

Reverse(s) == [k \in 1..Len(s) |-> s[Len(s) + 1 - k]]

RemoveAt(s, k) == SubSeq(s, 1, k - 1) \o SubSeq(s, k + 1, Len(s))

MinOf(S) == CHOOSE x \in S : \A y \in S : x <= y

RECURSIVE Flatten(_)
Flatten(ss) == IF ss = <<>> THEN <<>> ELSE Head(ss) \o Flatten(Tail(ss))

-----------------------------------------------------------------------------
(* Exceptions *)

NoFailure == [kind |-> "none", origin |-> "none", status |-> 0]

Raised(kind, origin, status) == [kind |-> kind, origin |-> origin, status |-> status]

\* the answers of Strava: the status and, for a 429, the limit that was hit.
\* Every answer carries the X-RateLimit-Usage and X-RateLimit-Limit headers
\* custom_raise_for_status reads before it looks at the status.
SourceResponses ==
    { [status |-> 200, hit |-> "none"],
      [status |-> 429, hit |-> "fifteen"],
      [status |-> 429, hit |-> "daily"],
      [status |-> 500, hit |-> "none"] }

\* the answers of FitTrackee
SinkStatuses == {200, 500}

\* requests' Response.raise_for_status: an HTTPError for a 4xx or 5xx status
RaiseForStatus(status) == IF status >= 400 THEN "HTTPError" ELSE "ok"

\* a plausible slip: the 429 branch missing
CustomRaiseForStatusGeneric(status) == RaiseForStatus(status)

\* custom_raise_for_status: the exception a Strava response raises
CustomRaiseForStatus(status) ==
    IF status = TooManyRequests THEN "TooManyRequestsError"
    ELSE RaiseForStatus(status)

-----------------------------------------------------------------------------
(* wait_until_fifteen *)

NoWait == [now |-> 0, wait_until |-> 0, clock |-> 0, hit |-> "none"]

\* the times the clock is read at when the wait starts: 25 seconds before a
\* quarter of an hour, on it, and 10 seconds before the next
NowSamples == {875, 900, 1790}

\* a plausible slip: rounding down to the quarter of an hour
WaitUntilFloor(now) == now - (now % Quarter)

\* now + (datetime.min - now) % timedelta(minutes=15): now itself when now is
\* on a quarter of an hour
WaitUntil(now) == now + ((0 - now) % Quarter)

\* the process called wait_until_fifteen: it reads the clock
WaitEnter ==
    /\ pc = "wait_enter"
    /\ \E now \in NowSamples :
          w' = [w EXCEPT !.now = now, !.wait_until = WaitUntil(now), !.clock = now]
    /\ pc' = "wait_poll"
    /\ UNCHANGED outside
    /\ UNCHANGED <<prev, mode, run, source, sink, files, latest_dt, ga, activities,
                   to_process, cidx, i, cur, cr, act, gear, ret, failure,
                   uploads, pages_log>>

\* a plausible slip: the clock read once, before the loop
AfterSleepSameClock(clock) == clock

\* datetime.now() after time.sleep(10)
AfterSleep(clock) == clock + SleepSec

\* while datetime.now() < wait_until: time.sleep(10)
WaitPoll ==
    /\ pc = "wait_poll"
    /\ IF w.clock < w.wait_until
       THEN /\ w' = [w EXCEPT !.clock = AfterSleep(w.clock)]
            /\ pc' = "wait_poll"
       ELSE /\ w' = w
            /\ pc' = "wait_exit"
    /\ UNCHANGED outside
    /\ UNCHANGED <<prev, mode, run, source, sink, files, latest_dt, ga, activities,
                   to_process, cidx, i, cur, cr, act, gear, ret, failure,
                   uploads, pages_log>>

\* wait_until_fifteen returns to the loop that caught the exception
WaitReturn ==
    /\ pc = "wait_exit"
    /\ pc' = ret
    /\ ret' = "none"
    /\ w' = NoWait
    /\ UNCHANGED outside
    /\ UNCHANGED <<prev, mode, run, source, sink, files, latest_dt, ga, activities,
                   to_process, cidx, i, cur, cr, act, gear, failure, uploads,
                   pages_log>>

-----------------------------------------------------------------------------
(* Strava: GET /athlete/activities *)

\* the answer to one listing request: the activities after the given time,
\* oldest first (newest first without "after"), cut into pages
ListActivities(src, after, per_page, page) ==
    LET matching == IF after = None THEN Reverse(src)
                    ELSE SelectSeq(src, LAMBDA a : a.start > after[1])
        first == (page - 1) * per_page + 1
        last == IF page * per_page < Len(matching) THEN page * per_page
                ELSE Len(matching)
    IN SubSeq(matching, first, last)

\* a plausible slip: a page shorter than per_page taken for the last one
LastPageShort(r, per_page) == Len(r) < per_page

\* get_activities: if len(r.json()) == 0
LastPage(r, per_page) == Len(r) = 0

GetActivitiesFrame(after, per_page) ==
    [after |-> after, per_page |-> per_page, page |-> 1, all_activities |-> <<>>]

NoFrame == [after |-> None, per_page |-> 0, page |-> 0, all_activities |-> <<>>]

\* a plausible slip: the page counted although its request was refused
RetryFrameNextPage(frame) == [frame EXCEPT !.page = @ + 1]

\* get_activities' "while not success": params, page and all_activities are
\* what they were when the request is made again
RetryFrame(frame) == frame

\* where get_activities returns to
AfterGetActivities ==
    CASE mode = "sync" -> "sync_classify"
      [] mode = "download_all" -> "dl_loop"
      [] OTHER -> "done"

\* one turn of get_activities' while True loop (limit=None): the request, the
\* retry after a rate limit, and the page added or the list returned
GetActivitiesPage ==
    /\ pc = "ga_request"
    /\ \E resp \in SourceResponses :
          LET raised == CustomRaiseForStatus(resp.status)
              r == ListActivities(source, ga.after, ga.per_page, ga.page)
          IN CASE raised = "TooManyRequestsError" ->
                    /\ pc' = "wait_enter"
                    /\ ret' = "ga_request"
                    /\ w' = [NoWait EXCEPT !.hit = resp.hit]
                    /\ ga' = RetryFrame(ga)
                    /\ UNCHANGED <<activities, failure, pages_log>>
               [] raised = "HTTPError" ->
                    /\ pc' = "failed"
                    /\ failure' = Raised("HTTPError", "source", resp.status)
                    /\ UNCHANGED <<ga, activities, ret, w, pages_log>>
               [] OTHER ->
                    /\ pages_log' = Append(pages_log, [page |-> ga.page, r |-> r])
                    /\ IF LastPage(r, ga.per_page)
                       THEN /\ activities' = ga.all_activities
                            /\ pc' = AfterGetActivities
                            /\ ga' = ga
                       ELSE /\ ga' = [ga EXCEPT !.all_activities = @ \o r,
                                                !.page = @ + 1]
                            /\ pc' = "ga_request"
                            /\ activities' = activities
                    /\ UNCHANGED <<ret, w, failure>>
    /\ UNCHANGED outside
    /\ UNCHANGED <<prev, mode, run, source, sink, files, latest_dt, to_process,
                   cidx, i, cur, cr, act, gear, uploads>>

-----------------------------------------------------------------------------
(* Strava's activities and their streams *)

StreamKeys == <<"latlng", "time", "altitude", "velocity_smooth">>

AllStreams == {"latlng", "time", "altitude", "velocity_smooth", "distance"}

\* what an activity is, apart from its id and its start: recorded with GPS and
\* gear, recorded indoors (no latlng and no altitude stream), entered by hand
\* with gear, entered by hand with a type FitTrackee has no sport for
GpsRun ==
    [manual |-> FALSE, type |-> "Run", gear_id |-> "g1", streams |-> AllStreams,
     samples |-> 2]
IndoorRun ==
    [manual |-> FALSE, type |-> "Run", gear_id |-> NoGear,
     streams |-> {"time", "velocity_smooth", "distance"}, samples |-> 2]
ManualRun ==
    [manual |-> TRUE, type |-> "Run", gear_id |-> "g1", streams |-> {},
     samples |-> 0]
ManualYoga ==
    [manual |-> TRUE, type |-> "Yoga", gear_id |-> NoGear, streams |-> {},
     samples |-> 0]

RawActivity(id, start, shape) ==
    [id |-> id, start |-> start, manual |-> shape.manual, type |-> shape.type,
     gear_id |-> shape.gear_id, streams |-> shape.streams,
     samples |-> shape.samples]

NoRaw == RawActivity(0, 0, ManualYoga)

\* the data of one stream of an activity: a value per sample
StreamData(a, key) ==
    [k \in 1..a.samples |->
        CASE key = "latlng" -> <<Some(40 + k), Some(7 + k)>>
          [] key = "time" -> (k - 1) * MinuteSec
          [] key = "altitude" -> Some(300 + k)
          [] key = "velocity_smooth" -> Some(3)
          [] key = "distance" -> (k - 1) * 250]

\* GET /activities/{id}/streams?keys=[key]: the stream asked for and the
\* distance stream, each if the activity has it
StreamsResponse(a, key) ==
    LET asked == IF key \in a.streams
                 THEN <<[type |-> key, data |-> StreamData(a, key)]>> ELSE <<>>
        base == IF "distance" \in a.streams /\ key # "distance"
                THEN <<[type |-> "distance", data |-> StreamData(a, "distance")]>>
                ELSE <<>>
    IN asked \o base

\* StravaConnector.filter_response_by_key
FilterResponseByKey(response, type_key, null_return) ==
    IF response = <<>> THEN null_return
    ELSE LET found == SelectSeq(response, LAMBDA d : d.type = type_key)
         IN IF found # <<>> THEN found[1].data ELSE null_return

-----------------------------------------------------------------------------
(* create_activity_from_strava and the Activity it builds *)

\* the local distance: not yet assigned, the number 0, or a list
Unbound == [bound |-> FALSE, scalar |-> FALSE, data |-> <<>>]
Scalar(v) == [bound |-> TRUE, scalar |-> TRUE, data |-> <<v>>]
List(l) == [bound |-> TRUE, scalar |-> FALSE, data |-> l]

NoCreate ==
    [get_streams |-> FALSE, step |-> 0, latlng |-> <<>>, time_list |-> <<>>,
     altitude |-> <<>>, velocity |-> <<>>, distance |-> Unbound]

\* the call: the arguments bound, no local assigned yet
CreateFrame(get_streams) == [NoCreate EXCEPT !.get_streams = get_streams]

NoActivity ==
    [id |-> 0, start_time |-> 0, lat |-> <<>>, long |-> <<>>, time |-> <<>>,
     altitude |-> <<>>, velocity |-> <<>>, distance |-> Unbound, type |-> "",
     link |-> <<>>, gear |-> None, gear_note |-> None]

\* Activity.get_gear_note: the empty note (None here) without gear, else the
\* note naming the gear
GetGearNote(g) == IF g = None THEN None ELSE Some(<<"Gear used: ", g[1]>>)

\* Activity.__init__
Activity(a, latlng, time_list, altitude, velocity, distance, g) ==
    [id |-> a.id,
     start_time |-> a.start,
     lat |-> [k \in 1..Len(latlng) |-> latlng[k][1]],
     long |-> [k \in 1..Len(latlng) |-> latlng[k][2]],
     time |-> [k \in 1..Len(time_list) |-> a.start + time_list[k]],
     altitude |-> altitude,
     velocity |-> velocity,
     distance |-> distance,
     type |-> a.type,
     link |-> <<"https://strava.com/activities/", a.id>>,
     gear |-> g,
     gear_note |-> GetGearNote(g)]

\* who catches a TooManyRequestsError raised in create_activity_from_strava:
\* the loops of sync and of download-all do, a direct caller does not
CatchesTooMany == mode \in {"sync", "download_all"}

LoopOf == IF mode = "sync" THEN "sync_loop" ELSE "dl_loop"

\* where create_activity_from_strava returns to
AfterCreate ==
    CASE mode = "sync" -> "sync_upload"
      [] mode = "download_all" -> "dl_write"
      [] mode = "upload_gpx" -> "write_gpx"
      [] OTHER -> "done"

\* a plausible slip: except HTTPError, the class TooManyRequestsError is
\* derived from
CaughtByLoopAnyHttpError(raised) == raised \in {"TooManyRequestsError", "HTTPError"}

\* except TooManyRequestsError, around the body of the loops of sync and of
\* download-all
CaughtByLoop(raised) == raised = "TooManyRequestsError"

\* a plausible slip: the loop started again from its first item
IndexAfterRateLimitRestart(index) == 0

\* except TooManyRequestsError: the index is left as it is
IndexAfterRateLimit(index) == index

\* the exception of a Strava response inside create_activity_from_strava:
\* caught by the loop (backoff, then the same index again) or ending the process
RaiseInCreate(raised, resp) ==
    IF CaughtByLoop(raised) /\ CatchesTooMany
    THEN /\ pc' = "wait_enter"
         /\ ret' = LoopOf
         /\ w' = [NoWait EXCEPT !.hit = resp.hit]
         /\ i' = IndexAfterRateLimit(i)
         /\ failure' = failure
    ELSE /\ pc' = "failed"
         /\ failure' = Raised(raised, "source", resp.status)
         /\ UNCHANGED <<ret, w, i>>

\* create_activity_from_strava up to the first request: a manual activity gets
\* no streams and distance 0; without streams the defaults are taken
CreateCall ==
    /\ pc = "cr_call"
    /\ LET manual_branch == cur.manual /\ cr.get_streams
           get_streams == IF manual_branch THEN FALSE ELSE cr.get_streams
           distance == IF manual_branch THEN Scalar(0) ELSE cr.distance
       IN IF get_streams
          THEN /\ cr' = [cr EXCEPT !.get_streams = get_streams, !.step = 1,
                                   !.distance = distance]
               /\ pc' = "cr_stream"
          ELSE /\ cr' = [cr EXCEPT !.get_streams = get_streams,
                                   !.distance = distance,
                                   !.latlng = << <<None, None>> >>,
                                   !.time_list = <<0>>,
                                   !.altitude = <<None>>,
                                   !.velocity = <<None>>]
               /\ pc' = "cr_gear"
    /\ UNCHANGED outside
    /\ UNCHANGED <<prev, mode, run, source, sink, files, latest_dt, ga, activities,
                   to_process, cidx, i, cur, act, gear, w, ret, failure,
                   uploads, pages_log>>

\* one of the four stream requests, in the order latlng, time, altitude,
\* velocity_smooth; the distance is read from the answer to the first
CreateStream ==
    /\ pc = "cr_stream"
    /\ \E resp \in SourceResponses :
          LET raised == CustomRaiseForStatus(resp.status)
              key == StreamKeys[cr.step]
              r == StreamsResponse(cur, key)
          IN IF raised # "ok"
             THEN /\ RaiseInCreate(raised, resp)
                  /\ cr' = cr
             ELSE /\ cr' = CASE cr.step = 1 ->
                                  [cr EXCEPT !.latlng = FilterResponseByKey(r, "latlng", << <<None, None>> >>),
                                             !.distance = List(FilterResponseByKey(r, "distance", <<0>>)),
                                             !.step = 2]
                             [] cr.step = 2 ->
                                  [cr EXCEPT !.time_list = FilterResponseByKey(r, "time", <<0>>),
                                             !.step = 3]
                             [] cr.step = 3 ->
                                  [cr EXCEPT !.altitude = FilterResponseByKey(r, "altitude", <<None>>),
                                             !.step = 4]
                             [] OTHER ->
                                  [cr EXCEPT !.velocity = FilterResponseByKey(r, "velocity_smooth", <<None>>),
                                             !.step = 5]
                  /\ pc' = IF cr.step = 4 THEN "cr_gear" ELSE "cr_stream"
                  /\ UNCHANGED <<ret, w, failure, i>>
    /\ UNCHANGED outside
    /\ UNCHANGED <<prev, mode, run, source, sink, files, latest_dt, ga, activities,
                   to_process, cidx, cur, act, gear, uploads, pages_log>>

\* a plausible slip: the gear requested whether it is cached or not
GetGearNoCache(cache, gear_id, resp) ==
    LET raised == CustomRaiseForStatus(resp.status)
    IN [raised |-> raised, requested |-> TRUE,
        cache |-> IF raised = "ok" THEN cache \cup {gear_id} ELSE cache,
        value |-> IF raised = "ok" THEN Some(gear_id) ELSE None]

\* StravaConnector.get_gear for a Strava that answers a request with resp:
\* the gear from the cache, else requested and, without an exception, cached
GetGear(cache, gear_id, resp) ==
    IF gear_id \in cache
    THEN [raised |-> "ok", requested |-> FALSE, cache |-> cache,
          value |-> Some(gear_id)]
    ELSE LET raised == CustomRaiseForStatus(resp.status)
         IN [raised |-> raised, requested |-> TRUE,
             cache |-> IF raised = "ok" THEN cache \cup {gear_id} ELSE cache,
             value |-> IF raised = "ok" THEN Some(gear_id) ELSE None]

\* self.get_gear(activity["gear_id"]) if activity["gear_id"] else None
GearOf(cache, a, resp) ==
    IF a.gear_id # NoGear THEN GetGear(cache, a.gear_id, resp)
    ELSE [raised |-> "ok", requested |-> FALSE, cache |-> cache, value |-> None]

\* the gear and the Activity returned; distance is read here, assigned or not
CreateGear ==
    /\ pc = "cr_gear"
    /\ \E resp \in SourceResponses :
          LET out == GearOf(gear, cur, resp)
          IN /\ ~out.requested => resp.status = 200    \* no request, no answer
             /\ IF out.raised # "ok"
                THEN /\ RaiseInCreate(out.raised, resp)
                     /\ gear' = out.cache
                     /\ act' = act
                ELSE /\ gear' = out.cache
                     /\ IF cr.distance.bound
                        THEN /\ act' = Activity(cur, cr.latlng, cr.time_list,
                                                cr.altitude, cr.velocity,
                                                cr.distance, out.value)
                             /\ pc' = AfterCreate
                             /\ failure' = failure
                        ELSE /\ act' = act
                             /\ pc' = "failed"
                             /\ failure' = Raised("UnboundLocalError", "program", 0)
                     /\ UNCHANGED <<ret, w, i>>
    /\ UNCHANGED outside
    /\ UNCHANGED <<prev, mode, run, source, sink, files, latest_dt, ga, activities,
                   to_process, cidx, cur, cr, uploads, pages_log>>

-----------------------------------------------------------------------------
(* The track file *)

MinLen(lens) == MinOf(lens)

\* Activity.as_dict, without the title and the raw activity
AsDict(a) ==
    [start_time |-> a.start_time, lat |-> a.lat, long |-> a.long,
     time |-> a.time, altitude |-> a.altitude, velocity |-> a.velocity,
     distance |-> a.distance, type |-> a.type, link |-> a.link,
     gear |-> a.gear, gear_note |-> a.gear_note]

\* json.dumps and json.loads: the text of a dict, and the dict of a text
JsonDumps(d) == [json |-> d]

JsonLoads(text) == text.json

\* a plausible slip: the comment written with the note of an Activity
\* without gear
AsGpxCommentWithoutNote(a) == JsonDumps([AsDict(a) EXCEPT !.gear_note = None])

\* Activity.as_gpx: the comment of the track, the Activity as JSON
AsGpxComment(a) == JsonDumps(AsDict(a))

\* Activity.as_gpx: one track with the type as description, the link and
\* the comment, one segment in it, a point per sample (zip stops at the
\* shortest list)
AsGpx(a) ==
    [tracks |->
       << [description |-> Some(a.type),
           link |-> Some(a.link),
           comment |-> Some(AsGpxComment(a)),
           segments |->
             << [points |->
                   [k \in 1..MinLen({Len(a.time), Len(a.lat), Len(a.long),
                                     Len(a.altitude), Len(a.velocity)}) |->
                       [time |-> a.time[k], latitude |-> a.lat[k],
                        longitude |-> a.long[k], elevation |-> a.altitude[k],
                        speed |-> a.velocity[k]]]] >>] >>]

\* GPX.to_xml: the document written for a GPX object, an element per field
\* (no element for None)
ToXml(gpx) ==
    [trk |-> [k \in 1..Len(gpx.tracks) |->
                [desc |-> gpx.tracks[k].description,
                 link_href |-> gpx.tracks[k].link,
                 cmt |-> gpx.tracks[k].comment,
                 trkseg |-> [j \in 1..Len(gpx.tracks[k].segments) |->
                               [trkpt |-> gpx.tracks[k].segments[j].points]]]]]

\* Activity.as_xml
AsXml(a) == ToXml(AsGpx(a))

\* gpxpy.parse: the GPX object of a document
ParseGpx(xml) ==
    [tracks |-> [k \in 1..Len(xml.trk) |->
                   [description |-> xml.trk[k].desc,
                    link |-> xml.trk[k].link_href,
                    comment |-> xml.trk[k].cmt,
                    segments |-> [j \in 1..Len(xml.trk[k].trkseg) |->
                                    [points |-> xml.trk[k].trkseg[j].trkpt]]]]]

-----------------------------------------------------------------------------
(* FitTrackee *)

\* the Strava types that are keys of FitTrackeeConnector.sport_id_map
SportTypes ==
    {"Ride", "VirtualRide", "Hike", "Walk", "MountainBikeRide",
     "EMountainBikeRide", "Rowing", "Run", "AlpineSki", "NordicSki",
     "Snowshoe", "TrailRun"}

\* the labels of the sports get_sport_id is asked for, by Strava type
SportLabel(t) ==
    CASE t = "Ride" -> "Cycling (Sport)"
      [] t = "VirtualRide" -> "Cycling (Virtual)"
      [] t = "Hike" -> "Hiking"
      [] t = "Walk" -> "Walking"
      [] t = "MountainBikeRide" -> "Mountain Biking"
      [] t = "EMountainBikeRide" -> "Mountain Biking (Electric)"
      [] t = "Rowing" -> "Rowing"
      [] t = "Run" -> "Running"
      [] t = "AlpineSki" -> "Skiing (Alpine)"
      [] t = "NordicSki" -> "Skiing (Cross Country)"
      [] t = "Snowshoe" -> "Snowshoes"
      [] OTHER -> "Trail"

\* sport_id_map[None]: the id used for a track without a description
DefaultSportId == 1

\* the labels of FitTrackee's sports, in the order of their ids
CatalogLabels ==
    <<"Cycling (Sport)", "Cycling (Virtual)", "Hiking", "Mountain Biking",
      "Mountain Biking (Electric)", "Rowing", "Running", "Skiing (Alpine)",
      "Skiing (Cross Country)", "Snowshoes", "Trail", "Walking">>

\* r.json()["data"]["sports"] of a FitTrackee that has every sport
FullCatalog == { [id |-> k, label |-> CatalogLabels[k]] : k \in 1..Len(CatalogLabels) }

\* FitTrackeeConnector.get_sport_id: the id of the sport with the label, or
\* None
GetSportId(sp, sport_name) ==
    LET sport_dict == { sport \in sp : sport.label = sport_name }
    IN IF sport_dict # {} THEN Some((CHOOSE sport \in sport_dict : TRUE).id)
       ELSE None

\* FitTrackeeConnector.sport_id_map, its keys other than None
SportIdMap(sp) == [t \in SportTypes |-> GetSportId(sp, SportLabel(t))]

\* strftime("%Y-%m-%d"): the calendar date of a time
DateOf(t) == t \div DaySec

Workout(date, activity, via, duration, distance) ==
    [date |-> date, act |-> activity, via |-> via, duration |-> duration,
     distance |-> distance]

\* a workout FitTrackee holds from before, not made from a Strava activity
OldWorkout(date) == Workout(date, 0, "other", 0, <<0, 1>>)

\* GET /workouts answers with the latest workout first
RECURSIVE LatestFirst(_)
LatestFirst(s) ==
    IF s = <<>> THEN <<>>
    ELSE LET k == CHOOSE k \in 1..Len(s) : \A j \in 1..Len(s) : s[j].date <= s[k].date
         IN <<s[k]>> \o LatestFirst(RemoveAt(s, k))

\* FitTrackeeConnector.get_workouts: the workouts with a date from start_date
\* to end_date (each None or a calendar date), the first limit of them
GetWorkouts(s, limit, start_date, end_date) ==
    LET inside == SelectSeq(s, LAMBDA x :
                      /\ start_date # None => DateOf(x.date) >= start_date[1]
                      /\ end_date # None => DateOf(x.date) <= end_date[1])
        workouts == LatestFirst(inside)
    IN IF limit # None THEN Take(workouts, limit[1]) ELSE workouts

\* a plausible slip: the oldest workout taken for the latest
LatestDtOldest(s) ==
    LET latest_workout == GetWorkouts(s, None, None, None)
    IN IF Len(latest_workout) > 0 THEN Last(latest_workout).date ELSE Epoch

\* sync: the time of the latest workout, or the epoch without any workout
LatestDt(s) ==
    LET latest_workout == GetWorkouts(s, Some(1), None, None)
    IN IF Len(latest_workout) > 0 THEN latest_workout[1].date ELSE Epoch

\* a plausible slip: no workout ever matches
NeverMatchingWorkout(s, a) == FALSE

\* a plausible slip: a window of an hour
HasMatchingWorkoutHour(s, a) ==
    \E k \in 1..Len(s) :
        /\ DateOf(s[k].date) = DateOf(a.start)
        /\ a.start - 2 * Window < s[k].date /\ s[k].date < a.start + 2 * Window

\* activity_has_matching_workout
ActivityHasMatchingWorkout(s, a) ==
    LET activity_dt == a.start
        activity_date_str == DateOf(activity_dt)
        lower_window == activity_dt - Window
        upper_window == activity_dt + Window
        same_day_workouts == GetWorkouts(s, None, Some(activity_date_str),
                                         Some(activity_date_str))
        overlapping_workouts ==
            SelectSeq(same_day_workouts,
                      LAMBDA x : lower_window < x.date /\ x.date < upper_window)
    IN Len(overlapping_workouts) > 0

\* upload_no_gpx: workout_date, the start in the user's timezone to the minute,
\* which FitTrackee reads in that timezone
NoGpxWorkoutDate(a) == (a.start_time \div MinuteSec) * MinuteSec

\* timedelta.seconds: the seconds within the day
TimedeltaSeconds(d) == d % DaySec

\* the outcome of upload_no_gpx for a FitTrackee that answers the request for
\* the user's timezone with tz_status and the upload request with status:
\* the exception raised, or the workout created
UploadNoGpx(a, tz_status, status) ==
    IF RaiseForStatus(tz_status) # "ok"
    THEN [raised |-> Raised("HTTPError", "sink", tz_status), created |-> <<>>]
    ELSE IF a.type \notin SportTypes
    THEN [raised |-> Raised("KeyError", "program", 0), created |-> <<>>]
    ELSE IF a.distance.scalar
    THEN [raised |-> Raised("TypeError", "program", 0), created |-> <<>>]
    ELSE IF RaiseForStatus(status) # "ok"
    THEN [raised |-> Raised("HTTPError", "sink", status), created |-> <<>>]
    ELSE [raised |-> NoFailure,
          created |-> <<Workout(NoGpxWorkoutDate(a), a.id, "no_gpx",
                                TimedeltaSeconds(Last(a.time) - a.time[1]),
                                <<Last(a.distance.data), MetresPerKm>>)>>]

\* a plausible slip: the file posted as it was read
RewrittenFileKept(file, gpx) == file

\* upload_gpx: the file written again from the GPX object, whose comment
\* was set to None
RewrittenFile(file, gpx) == ToXml(gpx)

\* upload_gpx up to the request, for a connector with the sport_id_map and a
\* file with the content: the exception raised, or the locals and the
\* content of the file when the request is made
UploadGpxPrepared(sport_id_map, file) ==
    LET gpx == ParseGpx(file)
        has_tracks == gpx.tracks # <<>>
        activity_type == IF has_tracks THEN gpx.tracks[1].description ELSE None
        url == IF has_tracks THEN gpx.tracks[1].link ELSE None
        activity_dict == IF has_tracks THEN Some(JsonLoads(gpx.tracks[1].comment[1]))
                         ELSE None
        stripped == IF has_tracks THEN [gpx EXCEPT !.tracks[1].comment = None]
                    ELSE gpx
        sport_id == IF activity_type = None THEN Some(DefaultSportId)
                    ELSE sport_id_map[activity_type[1]]
        notes == [type |-> activity_type,
                  link |-> url,
                  gear_note |-> IF activity_dict # None
                                THEN activity_dict[1].gear_note ELSE None]
        raises(kind) == [raised |-> Raised(kind, "program", 0),
                         activity_type |-> None, url |-> None,
                         activity_dict |-> None, data |-> None, file |-> file]
    IN IF has_tracks /\ gpx.tracks[1].comment = None
       THEN raises("TypeError")
       ELSE IF activity_type # None /\ activity_type[1] \notin DOMAIN sport_id_map
       THEN raises("KeyError")
       ELSE IF \/ ~has_tracks
               \/ gpx.tracks[1].segments = <<>>
               \/ gpx.tracks[1].segments[1].points = <<>>
       THEN raises("IndexError")
       ELSE [raised |-> NoFailure,
             activity_type |-> activity_type,
             url |-> url,
             activity_dict |-> activity_dict,
             data |-> Some([sport_id |-> sport_id, notes |-> notes]),
             file |-> IF activity_dict # None THEN RewrittenFile(file, stripped)
                      ELSE file]

\* the workout FitTrackee makes of a track file posted: it starts at the
\* first point
WorkoutOfFile(file) ==
    Workout(file.trk[1].trkseg[1].trkpt[1].time, file.trk[1].link_href[1][2],
            "gpx", 0, <<0, 1>>)

\* the outcome of upload_gpx of a track file with the content, for a
\* FitTrackee that answers the request with status
UploadGpx(file, status) ==
    LET prepared == UploadGpxPrepared(SportIdMap(sports), file)
    IN IF prepared.raised # NoFailure
       THEN [raised |-> prepared.raised, created |-> <<>>]
       ELSE IF RaiseForStatus(status) # "ok"
       THEN [raised |-> Raised("HTTPError", "sink", status), created |-> <<>>]
       ELSE [raised |-> NoFailure, created |-> <<WorkoutOfFile(prepared.file)>>]

-----------------------------------------------------------------------------
(* sync_strava_with_fittrackee *)

\* the latest workout is asked for, and get_activities called with its time
SyncStart ==
    /\ pc = "sync_start"
    /\ \E status \in SinkStatuses :
          IF RaiseForStatus(status) # "ok"
          THEN /\ pc' = "failed"
               /\ failure' = Raised("HTTPError", "sink", status)
               /\ UNCHANGED <<latest_dt, ga>>
          ELSE /\ latest_dt' = LatestDt(sink)
               /\ ga' = GetActivitiesFrame(Some(latest_dt'), PerPage)
               /\ pc' = "ga_request"
               /\ failure' = failure
    /\ pages_log' = <<>>
    /\ UNCHANGED outside
    /\ UNCHANGED <<prev, mode, run, source, sink, files, activities, to_process,
                   cidx, i, cur, cr, act, gear, w, ret, uploads>>

\* a plausible slip: every activity listed marked as needing to be processed
ClassifiedAll(list, a, matching) == Append(list, a)

\* if not activity_has_matching_workout(...): to_process.append(a)
Classified(list, a, matching) == IF ~matching THEN Append(list, a) ELSE list

\* where the classification loop ends
AfterClassify == IF mode = "sync" THEN "sync_loop" ELSE "done"

\* one turn of "for a in activities": the activity is kept for processing
\* unless FitTrackee holds a matching workout
SyncClassify ==
    /\ pc = "sync_classify"
    /\ IF cidx < Len(activities)
       THEN \E status \in SinkStatuses :
               IF RaiseForStatus(status) # "ok"
               THEN /\ pc' = "failed"
                    /\ failure' = Raised("HTTPError", "sink", status)
                    /\ UNCHANGED <<to_process, cidx>>
               ELSE /\ to_process' =
                          Classified(to_process, activities[cidx + 1],
                                     ActivityHasMatchingWorkout(sink, activities[cidx + 1]))
                    /\ cidx' = cidx + 1
                    /\ pc' = "sync_classify"
                    /\ failure' = failure
       ELSE /\ pc' = AfterClassify
            /\ UNCHANGED <<to_process, cidx, failure>>
    /\ UNCHANGED outside
    /\ UNCHANGED <<prev, mode, run, source, sink, files, latest_dt, ga, activities,
                   i, cur, cr, act, gear, w, ret, uploads, pages_log>>

\* the head of "while i < len(to_process)": the next activity is taken and
\* create_activity_from_strava(a, get_streams=True) called
SyncLoop ==
    /\ pc = "sync_loop"
    /\ IF i < Len(to_process)
       THEN /\ cur' = to_process[i + 1]
            /\ cr' = CreateFrame(TRUE)
            /\ pc' = "cr_call"
       ELSE /\ pc' = "done"
            /\ UNCHANGED <<cur, cr>>
    /\ UNCHANGED outside
    /\ UNCHANGED <<prev, mode, run, source, sink, files, latest_dt, ga, activities,
                   to_process, cidx, i, act, gear, w, ret, failure, uploads,
                   pages_log>>

\* the Activity is uploaded: without GPS through upload_no_gpx if its type is
\* a key of the sport map (and skipped if not), else as a track file
SyncUpload ==
    /\ pc = "sync_upload"
    /\ \E tz_status, status \in SinkStatuses :
          LET no_gps == act.lat = <<None>> /\ act.long = <<None>>
              skipped == no_gps /\ act.type \notin SportTypes
              out == IF no_gps THEN UploadNoGpx(act, tz_status, status)
                     ELSE UploadGpx(AsXml(act), status)
          IN /\ ~no_gps => tz_status = 200    \* no request, no answer
             /\ IF skipped
                THEN /\ status = 200 /\ tz_status = 200
                     /\ i' = i + 1
                     /\ pc' = "sync_loop"
                     /\ UNCHANGED <<sink, uploads, failure, w, ret>>
                ELSE IF out.raised # NoFailure
                THEN IF CaughtByLoop(out.raised.kind)
                     THEN /\ pc' = "wait_enter"
                          /\ ret' = "sync_loop"
                          /\ w' = NoWait
                          /\ i' = IndexAfterRateLimit(i)
                          /\ UNCHANGED <<sink, uploads, failure>>
                     ELSE /\ pc' = "failed"
                          /\ failure' = out.raised
                          /\ UNCHANGED <<sink, uploads, i, w, ret>>
                ELSE /\ sink' = sink \o out.created
                     /\ uploads' = Append(uploads, [act |-> act.id, index |-> i,
                                                    via |-> out.created[1].via])
                     /\ i' = i + 1
                     /\ pc' = "sync_loop"
                     /\ UNCHANGED <<failure, w, ret>>
    /\ UNCHANGED outside
    /\ UNCHANGED <<prev, mode, run, source, files, latest_dt, ga, activities,
                   to_process, cidx, cur, cr, act, gear, pages_log>>

-----------------------------------------------------------------------------
(* download_all_strava_gpx *)

OutputFile(a) == [start |-> a.start, id |-> a.id, ext |-> "gpx"]

JsonFile(a) == [start |-> a.start, id |-> a.id, ext |-> "gpx.json"]

\* get_activities(limit=None, per_page=200) is called
\* a plausible slip: the output file opened before the Activity is made
FolderAtCreateOpened(folder, a) == folder \cup {OutputFile(a)}

\* the folder when create_activity_from_strava is called: the output file
\* is opened only after it has returned
FolderAtCreate(folder, a) == folder

\* a plausible slip: the file looked for is not the file written
OutputFileExistsNever(a, folder) == FALSE

\* output_file.exists()
OutputFileExists(a, folder) == OutputFile(a) \in folder

DownloadStart ==
    /\ pc = "dl_start"
    /\ ga' = GetActivitiesFrame(None, PerPage)
    /\ pages_log' = <<>>
    /\ pc' = "ga_request"
    /\ UNCHANGED outside
    /\ UNCHANGED <<prev, mode, run, source, sink, files, latest_dt, activities,
                   to_process, cidx, i, cur, cr, act, gear, w, ret, failure,
                   uploads>>

\* the head of "while i < len(activities)": an activity whose file exists is
\* skipped, a manual one is written as JSON, another one is fetched
DownloadLoop ==
    /\ pc = "dl_loop"
    /\ IF i < Len(activities)
       THEN LET a == activities[i + 1]
            IN IF OutputFileExists(a, files)
               THEN /\ i' = i + 1
                    /\ pc' = "dl_loop"
                    /\ UNCHANGED <<cur, cr, files>>
               ELSE IF a.manual = FALSE
               THEN /\ cur' = a
                    /\ cr' = CreateFrame(TRUE)
                    /\ pc' = "cr_call"
                    /\ files' = FolderAtCreate(files, a)
                    /\ i' = i
               ELSE /\ files' = files \cup {JsonFile(a)}
                    /\ cur' = a
                    /\ i' = i + 1
                    /\ pc' = "dl_loop"
                    /\ cr' = cr
       ELSE /\ pc' = "done"
            /\ UNCHANGED <<i, cur, cr, files>>
    /\ UNCHANGED outside
    /\ UNCHANGED <<prev, mode, run, source, sink, latest_dt, ga, activities,
                   to_process, cidx, act, gear, w, ret, failure, uploads,
                   pages_log>>

\* the Activity is written to its file
DownloadWrite ==
    /\ pc = "dl_write"
    /\ files' = files \cup {OutputFile(cur)}
    /\ i' = i + 1
    /\ pc' = "dl_loop"
    /\ UNCHANGED outside
    /\ UNCHANGED <<prev, mode, run, source, sink, latest_dt, ga, activities,
                   to_process, cidx, cur, cr, act, gear, w, ret, failure,
                   uploads, pages_log>>

-----------------------------------------------------------------------------
(* The process: killed, and started again *)

Ended == pc \in {"done", "failed", "killed"}

StartOf(m) == IF m = "sync" THEN "sync_start" ELSE "dl_start"

\* what a process holds in memory when it starts
Fresh ==
    /\ latest_dt' = Epoch
    /\ ga' = NoFrame
    /\ activities' = <<>>
    /\ to_process' = <<>>
    /\ cidx' = 0
    /\ i' = 0
    /\ cur' = NoRaw
    /\ cr' = NoCreate
    /\ act' = NoActivity
    /\ gear' = {}
    /\ w' = NoWait
    /\ ret' = "none"
    /\ failure' = NoFailure
    /\ uploads' = <<>>
    /\ pages_log' = <<>>

\* the process is killed where it stands: its memory is lost, what FitTrackee
\* and the output folder hold stays
Kill ==
    /\ ~Ended
    /\ pc' = "killed"
    /\ Fresh
    /\ UNCHANGED outside
    /\ UNCHANGED <<prev, mode, run, source, sink, files>>

\* the same command is run again: a new process. The lock file of
\* check_for_running_instance is not part of this state: the one a killed
\* process left behind is taken to have been deleted before the restart, as
\* the error message of check_for_running_instance asks.
Restart ==
    /\ Ended
    /\ run < MaxRuns
    /\ run' = run + 1
    /\ prev' = pc
    /\ pc' = StartOf(mode)
    /\ Fresh
    /\ UNCHANGED outside
    /\ UNCHANGED <<mode, source, sink, files>>

-----------------------------------------------------------------------------
(* The initial states *)

\* the start times of Strava's activities: 23:45:30 on a day, 00:05:00 and
\* 00:35:00 on the next
StartTimes == {85530, 86700, 88500}

\* the times of the workouts FitTrackee holds from before: 23:36:40 and
\* 00:01:40
OldTimes == {85000, 86500}

Shapes == {GpsRun, IndoorRun, ManualRun, ManualYoga}

\* the lists of at most n activities, oldest first, with ids 1, 2, ...
SourcesOf(times, shapes, n) ==
    UNION { { s \in [1..k -> { RawActivity(0, t, sh) : t \in times, sh \in shapes }] :
                 \A j \in 1..k - 1 : s[j].start < s[j + 1].start }
            : k \in 0..n }

Numbered(s) == [k \in 1..Len(s) |-> [s[k] EXCEPT !.id = k]]

\* the lists of at most n old workouts at different times, in order of
\* creation, which need not be the order of their times
SinksOf(times, n) ==
    UNION { { s \in [1..k -> { OldWorkout(t) : t \in times }] :
                 \A j, m \in 1..k : j # m => s[j].date # s[m].date }
            : k \in 0..n }

\* the settings get_or_raise_env is asked for
Settings ==
    {"STRAVA_TOKEN_FILE", "STRAVA_CLIENT_ID", "STRAVA_CLIENT_SECRET",
     "FITTRACKEE_TOKEN_FILE", "FITTRACKEE_HOST", "FITTRACKEE_CLIENT_ID",
     "FITTRACKEE_CLIENT_SECRET"}

\* every setting defined, both token files written
FullEnv == [defined |-> Settings, token_files |-> {"STRAVA_TOKEN_FILE", "FITTRACKEE_TOKEN_FILE"}]

\* the instances of the program that can be started
Instances == 1..MaxInstances

\* upload_gpx not called
NoUp ==
    [step |-> 0, sport_id_map |-> SportIdMap({}), activity_type |-> None,
     url |-> None, activity_dict |-> None, data |-> None]

\* neither upload-all nor delete-all called
NoBulk == [files |-> <<>>, workouts |-> <<>>, k |-> 0, answers |-> <<>>]

\* sync or download-all is running as the one instance, with every setting
\* and a FitTrackee that has every sport
InitOutside ==
    /\ sports = FullCatalog
    /\ up = NoUp
    /\ gpxfile = None
    /\ requests = <<>>
    /\ bulk = NoBulk
    /\ inst = [p \in Instances |-> IF p = 1 THEN "running" ELSE "none"]
    /\ pidfile = Some(1)
    /\ env = FullEnv

\* a new process: what no operation has touched yet
InitMemory ==
    /\ run = 1
    /\ prev = "none"
    /\ latest_dt = Epoch
    /\ to_process = <<>>
    /\ cidx = 0
    /\ i = 0
    /\ act = NoActivity
    /\ w = NoWait
    /\ ret = "none"
    /\ failure = NoFailure
    /\ uploads = <<>>
    /\ pages_log = <<>>

\* sync or download-all is started
Init ==
    /\ mode \in {"sync", "download_all"}
    /\ pc = StartOf(mode)
    /\ \E s \in SourcesOf(StartTimes, Shapes, MaxActs) : source = Numbered(s)
    /\ sink \in (IF mode = "sync" THEN SinksOf(OldTimes, MaxSink) ELSE {<<>>})
    /\ files = {}
    /\ ga = NoFrame
    /\ activities = <<>>
    /\ cur = NoRaw
    /\ cr = NoCreate
    /\ gear = {}
    /\ InitMemory
    /\ InitOutside

Next ==
    \/ SyncStart
    \/ GetActivitiesPage
    \/ SyncClassify
    \/ SyncLoop
    \/ CreateCall
    \/ CreateStream
    \/ CreateGear
    \/ SyncUpload
    \/ DownloadStart
    \/ DownloadLoop
    \/ DownloadWrite
    \/ WaitEnter
    \/ WaitPoll
    \/ WaitReturn
    \/ Kill
    \/ Restart

Spec == Init /\ [][Next]_vars

-----------------------------------------------------------------------------
(* sync of activities that start close to each other *)

\* the start times of Strava's activities: 00:05:00, 00:10:00 and 00:35:00
\* on the day of the later old workout
CloseTimes == {86700, 87000, 88500}

InitClose ==
    /\ mode = "sync"
    /\ pc = "sync_start"
    /\ \E s \in SourcesOf(CloseTimes, Shapes, MaxActs) : source = Numbered(s)
    /\ sink \in SinksOf(OldTimes, MaxSink)
    /\ files = {}
    /\ ga = NoFrame
    /\ activities = <<>>
    /\ cur = NoRaw
    /\ cr = NoCreate
    /\ gear = {}
    /\ InitMemory
    /\ InitOutside

NextClose ==
    \/ SyncStart
    \/ GetActivitiesPage
    \/ SyncClassify
    \/ SyncLoop
    \/ CreateCall
    \/ CreateStream
    \/ CreateGear
    \/ SyncUpload
    \/ WaitEnter
    \/ WaitPoll
    \/ WaitReturn
    \/ Kill
    \/ Restart

SpecClose == InitClose /\ [][NextClose]_vars

-----------------------------------------------------------------------------
(* One sync run of a process that keeps running: it is not killed, and
   whenever it can take a step it takes one *)

InitLive ==
    /\ Init
    /\ mode = "sync"

NextLive ==
    \/ SyncStart
    \/ GetActivitiesPage
    \/ SyncClassify
    \/ SyncLoop
    \/ CreateCall
    \/ CreateStream
    \/ CreateGear
    \/ SyncUpload
    \/ WaitEnter
    \/ WaitPoll
    \/ WaitReturn

SpecLive == InitLive /\ [][NextLive]_vars /\ WF_vars(NextLive)

-----------------------------------------------------------------------------
(* activity_has_matching_workout on its own: one activity is classified
   against the workouts FitTrackee holds *)

\* 23:35:00 and 23:45:30 on a day, 00:05:00, 00:15:30 and 00:35:00 on the next
DupTimes == {84900, 85530, 86700, 87330, 88500}

InitDup ==
    /\ mode = "dup_check"
    /\ pc = "sync_classify"
    /\ source \in { <<RawActivity(1, t, GpsRun)>> : t \in DupTimes }
    /\ sink \in SinksOf(DupTimes, MaxSink)
    /\ files = {}
    /\ activities = source
    /\ ga = NoFrame
    /\ cur = NoRaw
    /\ cr = NoCreate
    /\ gear = {}
    /\ InitMemory
    /\ InitOutside

NextDup == SyncClassify

SpecDup == InitDup /\ [][NextDup]_vars

-----------------------------------------------------------------------------
(* get_activities(limit=None) on its own *)

ListedSource(n) == [k \in 1..n |-> RawActivity(k, 1000 * k, GpsRun)]

InitPage ==
    /\ mode = "get_activities"
    /\ pc = "ga_request"
    /\ source \in { ListedSource(n) : n \in 0..MaxListed }
    /\ sink = <<>>
    /\ files = {}
    /\ activities = <<>>
    /\ cur = NoRaw
    /\ cr = NoCreate
    /\ gear = {}
    /\ InitMemory
    /\ InitOutside
    /\ ga \in { GetActivitiesFrame(after, per_page) :
                  after \in {None, Some(Epoch), Some(1000), Some(2500)},
                  per_page \in 1..MaxPerPage }

NextPage ==
    \/ GetActivitiesPage
    \/ WaitEnter
    \/ WaitPoll
    \/ WaitReturn

SpecPage == InitPage /\ [][NextPage]_vars

-----------------------------------------------------------------------------
(* create_activity_from_strava on its own, with and without streams *)

\* recorded with GPS, the altitude stream missing; recorded with GPS, a
\* single sample, no gear
GpsRunNoAltitude == [GpsRun EXCEPT !.streams = AllStreams \ {"altitude"}]
GpsRunShort == [GpsRun EXCEPT !.samples = 1, !.gear_id = NoGear]

CreateShapes == Shapes \cup {GpsRunNoAltitude, GpsRunShort}

InitCreate ==
    /\ mode = "create_activity"
    /\ pc = "cr_call"
    /\ source \in { <<RawActivity(1, t, sh)>> : t \in {86700}, sh \in CreateShapes }
    /\ sink = <<>>
    /\ files = {}
    /\ ga = NoFrame
    /\ activities = <<>>
    /\ InitMemory
    /\ InitOutside
    /\ cur = source[1]
    /\ cr \in { CreateFrame(get_streams) : get_streams \in BOOLEAN }
    /\ gear \in {{}, {"g1"}}

NextCreate ==
    \/ CreateCall
    \/ CreateStream
    \/ CreateGear

SpecCreate == InitCreate /\ [][NextCreate]_vars

-----------------------------------------------------------------------------
(* The connectors made: StravaConnector.__init__, FitTrackeeConnector.__init__ *)

\* what is neither the position of the process, nor its exception, nor
\* FitTrackee's workouts
memory == <<mode, run, source, files, latest_dt, ga, activities, to_process,
            cidx, i, cur, cr, act, gear, w, ret, uploads, pages_log, prev>>

Request(to, what, file, data) == [to |-> to, what |-> what, file |-> file, data |-> data]

\* the settings a connector reads, in the order it reads them
StravaSettings == <<"STRAVA_TOKEN_FILE", "STRAVA_CLIENT_ID", "STRAVA_CLIENT_SECRET">>

FitTrackeeSettings ==
    <<"FITTRACKEE_TOKEN_FILE", "FITTRACKEE_HOST", "FITTRACKEE_CLIENT_ID",
      "FITTRACKEE_CLIENT_SECRET">>

\* get_or_raise_env over the settings of a connector: those not defined
Undefined(e, settings) == SelectSeq(settings, LAMBDA v : v \notin e.defined)

\* load_conf, get_or_raise_env and auth of a connector to the system: the
\* EnvironmentError of the first setting not defined; else, without a token
\* file, the web application flow, which fetches the tokens from the system
\* and saves them
ConnectorAuth(e, settings, to) ==
    IF Undefined(e, settings) # <<>>
    THEN [raised |-> Raised("EnvironmentError", "program", 0),
          requests |-> <<>>, env |-> e]
    ELSE IF settings[1] \notin e.token_files
    THEN [raised |-> NoFailure,
          requests |-> <<Request(to, "POST /oauth/token", None, None)>>,
          env |-> [e EXCEPT !.token_files = @ \cup {settings[1]}]]
    ELSE [raised |-> NoFailure, requests |-> <<>>, env |-> e]

\* StravaConnector(): in sync and in --setup-tokens the first connector made
StravaConnectorInit ==
    /\ pc = "strava_init"
    /\ LET out == ConnectorAuth(env, StravaSettings, "strava")
       IN /\ requests' = requests \o out.requests
          /\ env' = out.env
          /\ IF out.raised # NoFailure
             THEN /\ pc' = "failed"
                  /\ failure' = out.raised
             ELSE /\ pc' = "ft_init"
                  /\ failure' = failure
    /\ UNCHANGED <<sink, sports, up, gpxfile, inst, pidfile, bulk>>
    /\ UNCHANGED memory

\* where the process goes on with its FitTrackeeConnector
AfterFitTrackeeInit ==
    CASE mode = "upload_gpx" -> "up_prepare"
      [] mode = "upload_all" -> "ua_loop"
      [] mode = "delete_all" -> "del_list"
      [] OTHER -> "done"

\* FitTrackeeConnector(): the settings, the tokens, and the sport_id_map made
\* of the answer to GET /sports
FitTrackeeConnectorInit ==
    /\ pc = "ft_init"
    /\ \E status \in SinkStatuses :
          LET out == ConnectorAuth(env, FitTrackeeSettings, "fittrackee")
              get_sports == Request("fittrackee", "GET /sports", None, None)
          IN /\ env' = out.env
             /\ IF out.raised # NoFailure
                THEN /\ status = 200    \* no request, no answer
                     /\ requests' = requests \o out.requests
                     /\ pc' = "failed"
                     /\ failure' = out.raised
                     /\ up' = up
                ELSE /\ requests' = (requests \o out.requests) \o <<get_sports>>
                     /\ IF RaiseForStatus(status) # "ok"
                        THEN /\ pc' = "failed"
                             /\ failure' = Raised("HTTPError", "sink", status)
                             /\ up' = up
                        ELSE /\ pc' = AfterFitTrackeeInit
                             /\ failure' = failure
                             /\ up' = [up EXCEPT !.sport_id_map = SportIdMap(sports)]
    /\ UNCHANGED <<sink, sports, gpxfile, inst, pidfile, bulk>>
    /\ UNCHANGED memory

\* --setup-tokens, with any of the settings defined and any of the token
\* files written
InitConf ==
    /\ mode = "setup_tokens"
    /\ pc = "strava_init"
    /\ source = <<>>
    /\ sink = <<>>
    /\ files = {}
    /\ ga = NoFrame
    /\ activities = <<>>
    /\ cur = NoRaw
    /\ cr = NoCreate
    /\ gear = {}
    /\ InitMemory
    /\ sports = FullCatalog
    /\ up = NoUp
    /\ gpxfile = None
    /\ requests = <<>>
    /\ bulk = NoBulk
    /\ inst = [p \in Instances |-> IF p = 1 THEN "running" ELSE "none"]
    /\ pidfile = Some(1)
    /\ env \in [defined : SUBSET Settings,
                token_files : SUBSET {"STRAVA_TOKEN_FILE", "FITTRACKEE_TOKEN_FILE"}]

NextConf ==
    \/ StravaConnectorInit
    \/ FitTrackeeConnectorInit

SpecConf == InitConf /\ [][NextConf]_vars

-----------------------------------------------------------------------------
(* An Activity written to a track file, and the file uploaded *)

\* f.write(act.as_xml()): the track file of the Activity is written
WriteGpx ==
    /\ pc = "write_gpx"
    /\ gpxfile' = Some(AsXml(act))
    /\ pc' = "ft_init"
    /\ UNCHANGED <<sink, failure, sports, up, requests, inst, pidfile, env, bulk>>
    /\ UNCHANGED memory

\* upload_gpx up to the request: the file is read, the sport id and the notes
\* are made, and the file is written again without the comment
UploadGpxPrepare ==
    /\ pc = "up_prepare"
    /\ LET prepared == UploadGpxPrepared(up.sport_id_map, gpxfile[1])
       IN IF prepared.raised # NoFailure
          THEN /\ pc' = "failed"
               /\ failure' = prepared.raised
               /\ UNCHANGED <<up, gpxfile>>
          ELSE /\ up' = [up EXCEPT !.step = 1,
                                   !.activity_type = prepared.activity_type,
                                   !.url = prepared.url,
                                   !.activity_dict = prepared.activity_dict,
                                   !.data = prepared.data]
               /\ gpxfile' = Some(prepared.file)
               /\ pc' = "up_post"
               /\ failure' = failure
    /\ UNCHANGED <<sink, sports, requests, inst, pidfile, env, bulk>>
    /\ UNCHANGED memory

\* upload_gpx: the file as it is now and the data are posted to /workouts
UploadGpxPost ==
    /\ pc = "up_post"
    /\ requests' = Append(requests, Request("fittrackee", "POST /workouts",
                                            gpxfile, up.data))
    /\ \E status \in SinkStatuses :
          IF RaiseForStatus(status) # "ok"
          THEN /\ pc' = "failed"
               /\ failure' = Raised("HTTPError", "sink", status)
               /\ sink' = sink
          ELSE /\ pc' = "done"
               /\ failure' = failure
               /\ sink' = Append(sink, WorkoutOfFile(gpxfile[1]))
    /\ UNCHANGED <<sports, up, gpxfile, inst, pidfile, env, bulk>>
    /\ UNCHANGED memory

\* recorded with GPS: a hike, and an activity of a type sport_id_map has no
\* key for
GpsHike == [GpsRun EXCEPT !.type = "Hike", !.gear_id = NoGear]
GpsKayaking == [GpsRun EXCEPT !.type = "Kayaking"]

UploadShapes == {GpsRun, GpsRunShort, GpsRunNoAltitude, GpsHike, GpsKayaking}

\* the catalogs of FitTrackee: every sport, every sport but Running, the
\* first sport only
Catalogs ==
    {FullCatalog,
     { sport \in FullCatalog : sport.label # "Running" },
     { sport \in FullCatalog : sport.id = DefaultSportId }}

\* one activity recorded with GPS is made an Activity, written to a track
\* file and uploaded
InitUpload ==
    /\ mode = "upload_gpx"
    /\ pc = "cr_call"
    /\ source \in { <<RawActivity(1, 86700, sh)>> : sh \in UploadShapes }
    /\ sink = <<>>
    /\ files = {}
    /\ ga = NoFrame
    /\ activities = <<>>
    /\ cur = source[1]
    /\ cr = CreateFrame(TRUE)
    /\ gear = {}
    /\ InitMemory
    /\ sports \in Catalogs
    /\ up = NoUp
    /\ gpxfile = None
    /\ requests = <<>>
    /\ bulk = NoBulk
    /\ inst = [p \in Instances |-> IF p = 1 THEN "running" ELSE "none"]
    /\ pidfile = Some(1)
    /\ env = FullEnv

NextUpload ==
    \/ CreateCall
    \/ CreateStream
    \/ CreateGear
    \/ WriteGpx
    \/ FitTrackeeConnectorInit
    \/ UploadGpxPrepare
    \/ UploadGpxPost

SpecUpload == InitUpload /\ [][NextUpload]_vars

-----------------------------------------------------------------------------
(* check_for_running_instance: instances of the program and the lock file *)

\* what the instances and the lock file leave alone
program == <<pc, failure, sink, sports, up, gpxfile, requests, env, bulk>>

\* python s2f.py ...: an instance is started and comes to
\* check_for_running_instance
InstanceStart(p) ==
    /\ inst[p] = "none"
    /\ inst' = [inst EXCEPT ![p] = "check"]
    /\ UNCHANGED <<pidfile, program, memory>>

\* if pidfile.exists(): the RuntimeError that ends the instance, which has
\* registered nothing to run at its exit; else the branch that writes
InstanceCheck(p) ==
    /\ inst[p] = "check"
    /\ inst' = [inst EXCEPT ![p] = IF pidfile # None THEN "refused" ELSE "write"]
    /\ UNCHANGED <<pidfile, program, memory>>

\* the pid is written to the lock file and its removal registered: the
\* instance goes on to its connectors and requests
InstanceWrite(p) ==
    /\ inst[p] = "write"
    /\ pidfile' = Some(p)
    /\ inst' = [inst EXCEPT ![p] = "running"]
    /\ UNCHANGED <<program, memory>>

\* the instance ends, by return or by an exception: log_and_delete_file
\* unlinks the lock file, whoever wrote it last
InstanceExit(p) ==
    /\ inst[p] = "running"
    /\ pidfile' = None
    /\ inst' = [inst EXCEPT ![p] = "exited"]
    /\ UNCHANGED <<program, memory>>

\* the instance is killed: nothing registered runs
InstanceKill(p) ==
    /\ inst[p] \in {"check", "write", "running"}
    /\ inst' = [inst EXCEPT ![p] = "killed"]
    /\ UNCHANGED <<pidfile, program, memory>>

\* no instance started yet, no lock file
InitLock ==
    /\ mode = "instances"
    /\ pc = "none"
    /\ source = <<>>
    /\ sink = <<>>
    /\ files = {}
    /\ ga = NoFrame
    /\ activities = <<>>
    /\ cur = NoRaw
    /\ cr = NoCreate
    /\ gear = {}
    /\ InitMemory
    /\ sports = FullCatalog
    /\ up = NoUp
    /\ gpxfile = None
    /\ requests = <<>>
    /\ bulk = NoBulk
    /\ inst = [p \in Instances |-> "none"]
    /\ pidfile = None
    /\ env = FullEnv

NextLock ==
    \/ \E p \in Instances : InstanceStart(p)
    \/ \E p \in Instances : InstanceCheck(p)
    \/ \E p \in Instances : InstanceWrite(p)
    \/ \E p \in Instances : InstanceExit(p)
    \/ \E p \in Instances : InstanceKill(p)

SpecLock == InitLock /\ [][NextLock]_vars

-----------------------------------------------------------------------------
(* upload_all_fittrackee and delete_all_fittrackee *)

\* the Activity create_activity_from_strava returns for an activity that is
\* not manual when every request is answered 200
CreatedActivity(a) ==
    LET first == StreamsResponse(a, "latlng")
    IN Activity(a,
                FilterResponseByKey(first, "latlng", << <<None, None>> >>),
                FilterResponseByKey(StreamsResponse(a, "time"), "time", <<0>>),
                FilterResponseByKey(StreamsResponse(a, "altitude"), "altitude", <<None>>),
                FilterResponseByKey(StreamsResponse(a, "velocity_smooth"),
                                    "velocity_smooth", <<None>>),
                List(FilterResponseByKey(first, "distance", <<0>>)),
                IF a.gear_id # NoGear THEN Some(a.gear_id) ELSE None)

\* the track files download-all wrote: of a run, of a hike, and of an
\* activity of a type sport_id_map has no key for
TrackFiles ==
    { AsXml(CreatedActivity(RawActivity(1, 85530, GpsRun))),
      AsXml(CreatedActivity(RawActivity(2, 86700, GpsHike))),
      AsXml(CreatedActivity(RawActivity(3, 88500, GpsKayaking))) }

\* list(p.glob("*.gpx")): the folders of at most n different track files
FoldersOf(n) ==
    UNION { { fs \in [1..k -> TrackFiles] : \A j, m \in 1..k : j # m => fs[j] # fs[m] }
            : k \in 0..n }

\* what the user can type at the prompt
Answers == {"y", "Y", "n", "N", "yes", ""}

\* str.lower, on what the user can type
Lower(text) ==
    CASE text = "Y" -> "y"
      [] text = "N" -> "n"
      [] OTHER -> text

\* a plausible slip: whatever is not a no taken for a yes
AskUserToConfirmUnlessNo(confirm) ==
    IF Lower(confirm) = "n" THEN Some(FALSE) ELSE Some(TRUE)

\* ask_user_to_confirm for one line typed: True, False, or None here when
\* the prompt is shown again
AskUserToConfirm(confirm) ==
    IF Lower(confirm) = "y" THEN Some(TRUE)
    ELSE IF Lower(confirm) = "n" THEN Some(FALSE)
    ELSE None

\* FitTrackee without the workout; a workout is known by its id, which is
\* what tells the workouts apart here
WithoutWorkout(s, wk) == SelectSeq(s, LAMBDA x : x # wk)

\* upload_all_fittrackee: upload_gpx of the next file of the folder, which
\* is written again before it is posted; an exception ends the process
UploadAllStep ==
    /\ pc = "ua_loop"
    /\ IF bulk.k < Len(bulk.files)
       THEN LET prepared == UploadGpxPrepared(up.sport_id_map, bulk.files[bulk.k + 1])
                post == Request("fittrackee", "POST /workouts",
                                Some(prepared.file), prepared.data)
            IN IF prepared.raised # NoFailure
               THEN /\ pc' = "failed"
                    /\ failure' = prepared.raised
                    /\ UNCHANGED <<sink, requests, bulk>>
               ELSE /\ requests' = Append(requests, post)
                    /\ \E status \in SinkStatuses :
                          IF RaiseForStatus(status) # "ok"
                          THEN /\ pc' = "failed"
                               /\ failure' = Raised("HTTPError", "sink", status)
                               /\ sink' = sink
                               /\ bulk' = [bulk EXCEPT !.files[bulk.k + 1] = prepared.file]
                          ELSE /\ pc' = "ua_loop"
                               /\ failure' = failure
                               /\ sink' = Append(sink, WorkoutOfFile(prepared.file))
                               /\ bulk' = [bulk EXCEPT !.files[bulk.k + 1] = prepared.file,
                                                       !.k = @ + 1]
       ELSE /\ pc' = "done"
            /\ UNCHANGED <<sink, requests, bulk, failure>>
    /\ UNCHANGED <<sports, up, gpxfile, inst, pidfile, env>>
    /\ UNCHANGED memory

\* delete_all_fittrackee: get_workouts(limit=None), every workout listed
DeleteList ==
    /\ pc = "del_list"
    /\ requests' = Append(requests, Request("fittrackee", "GET /workouts", None, None))
    /\ \E status \in SinkStatuses :
          IF RaiseForStatus(status) # "ok"
          THEN /\ pc' = "failed"
               /\ failure' = Raised("HTTPError", "sink", status)
               /\ bulk' = bulk
          ELSE /\ pc' = "del_confirm"
               /\ failure' = failure
               /\ bulk' = [bulk EXCEPT !.workouts = GetWorkouts(sink, None, None, None)]
    /\ UNCHANGED <<sink, sports, up, gpxfile, inst, pidfile, env>>
    /\ UNCHANGED memory

\* ask_user_to_confirm: one line is typed at the prompt
DeleteConfirm ==
    /\ pc = "del_confirm"
    /\ Len(bulk.answers) < MaxAnswers
    /\ \E confirm \in Answers :
          LET answer == AskUserToConfirm(confirm)
          IN /\ bulk' = [bulk EXCEPT !.answers = Append(@, confirm)]
             /\ pc' = IF answer = None THEN "del_confirm"
                      ELSE IF answer[1] THEN "del_loop"
                      ELSE "done"
    /\ UNCHANGED <<sink, failure, sports, up, gpxfile, requests, inst, pidfile, env>>
    /\ UNCHANGED memory

\* the loop over the workouts listed: one delete request
DeleteWorkout ==
    /\ pc = "del_loop"
    /\ IF bulk.k < Len(bulk.workouts)
       THEN /\ requests' = Append(requests, Request("fittrackee", "DELETE /workouts/{id}",
                                                    None, None))
            /\ \E status \in SinkStatuses :
                  IF RaiseForStatus(status) # "ok"
                  THEN /\ pc' = "failed"
                       /\ failure' = Raised("HTTPError", "sink", status)
                       /\ UNCHANGED <<sink, bulk>>
                  ELSE /\ pc' = "del_loop"
                       /\ failure' = failure
                       /\ sink' = WithoutWorkout(sink, bulk.workouts[bulk.k + 1])
                       /\ bulk' = [bulk EXCEPT !.k = @ + 1]
       ELSE /\ pc' = "done"
            /\ UNCHANGED <<sink, requests, bulk, failure>>
    /\ UNCHANGED <<sports, up, gpxfile, inst, pidfile, env>>
    /\ UNCHANGED memory

\* upload-all of a folder, or delete-all, is started
InitBulk ==
    /\ mode \in {"upload_all", "delete_all"}
    /\ pc = "ft_init"
    /\ source = <<>>
    /\ sink \in SinksOf(OldTimes, MaxSink)
    /\ files = {}
    /\ ga = NoFrame
    /\ activities = <<>>
    /\ cur = NoRaw
    /\ cr = NoCreate
    /\ gear = {}
    /\ InitMemory
    /\ sports = FullCatalog
    /\ up = NoUp
    /\ gpxfile = None
    /\ requests = <<>>
    /\ bulk \in (IF mode = "upload_all"
                 THEN { [NoBulk EXCEPT !.files = fs] : fs \in FoldersOf(MaxFolder) }
                 ELSE {NoBulk})
    /\ inst = [p \in Instances |-> IF p = 1 THEN "running" ELSE "none"]
    /\ pidfile = Some(1)
    /\ env = FullEnv

NextBulk ==
    \/ FitTrackeeConnectorInit
    \/ UploadAllStep
    \/ DeleteList
    \/ DeleteConfirm
    \/ DeleteWorkout

\* every operation on FitTrackee: sync, download-all, the upload of one
\* file, upload-all and delete-all
InitAll == Init \/ InitUpload \/ InitBulk

NextAll ==
    \/ mode \in {"sync", "download_all"} /\ Next
    \/ mode = "upload_gpx" /\ NextUpload
    \/ mode \in {"upload_all", "delete_all"} /\ NextBulk

SpecAll == InitAll /\ [][NextAll]_vars

-----------------------------------------------------------------------------
(* get_gear over the life of one StravaConnector *)

\* entered by hand with another gear
ManualRunOtherGear == [ManualRun EXCEPT !.gear_id = "g2"]

\* the activities whose gear is asked for: without gear, with one gear, with
\* another
GearShapes == {ManualYoga, ManualRun, ManualRunOtherGear}

\* the request of get_gear, with the answer it got
GearRequest(gear_id, resp) ==
    Request("strava", "GET /gear/{id}", None,
            Some([gear_id |-> gear_id, status |-> resp.status]))

\* the end of create_activity_from_strava for one more activity: its gear
\* and the note of the Activity made with it. A TooManyRequestsError is
\* caught by the caller's loop, which goes on; another exception ends the
\* process
GetGearCall ==
    /\ pc = "gear_call"
    /\ i < MaxGearCalls
    /\ \E shape \in GearShapes, resp \in SourceResponses :
          LET a == RawActivity(i + 1, 86700, shape)
              out == GearOf(gear, a, resp)
          IN /\ ~out.requested => resp.status = 200    \* no request, no answer
             /\ cur' = a
             /\ i' = i + 1
             /\ gear' = out.cache
             /\ requests' = IF out.requested
                            THEN Append(requests, GearRequest(a.gear_id, resp))
                            ELSE requests
             /\ IF out.raised = "ok"
                THEN /\ act' = [NoActivity EXCEPT !.id = a.id,
                                                  !.gear = out.value,
                                                  !.gear_note = GetGearNote(out.value)]
                     /\ UNCHANGED <<pc, failure>>
                ELSE /\ act' = act
                     /\ pc' = IF CaughtByLoop(out.raised) THEN "gear_call" ELSE "failed"
                     /\ failure' = Raised(out.raised, "source", resp.status)
    /\ UNCHANGED <<mode, run, source, sink, files, latest_dt, ga, activities,
                   to_process, cidx, cr, w, ret, uploads, pages_log, prev>>
    /\ UNCHANGED <<sports, up, gpxfile, inst, pidfile, env, bulk>>

\* a connector just made: nothing cached
InitGear ==
    /\ mode = "get_gear"
    /\ pc = "gear_call"
    /\ source = <<>>
    /\ sink = <<>>
    /\ files = {}
    /\ ga = NoFrame
    /\ activities = <<>>
    /\ cur = NoRaw
    /\ cr = NoCreate
    /\ gear = {}
    /\ InitMemory
    /\ InitOutside

NextGear == GetGearCall

SpecGear == InitGear /\ [][NextGear]_vars

-----------------------------------------------------------------------------
(* upload_no_gpx on its own: one Activity without GPS samples is uploaded *)

\* the time streams of activities recorded without GPS: one sample, a
\* minute, a second less than a day, a day, 25 hours, two days and a minute
TimeLists ==
    { <<0>>, <<0, 60>>, <<0, 86399>>, <<0, 86400>>, <<0, 90000>>,
      <<0, 60, 172860>> }

\* the Activities create_activity_from_strava makes of activities recorded
\* indoors, of a type with a sport and of a type without
NoGpsActivities ==
    { Activity(RawActivity(1, start, [IndoorRun EXCEPT !.type = type]),
               << <<None, None>> >>, time_list, <<None>>,
               [k \in 1..Len(time_list) |-> Some(3)],
               List([k \in 1..Len(time_list) |-> (k - 1) * 250]), None) :
        start \in StartTimes, time_list \in TimeLists, type \in {"Run", "Yoga"} }

\* fittrackee.upload_no_gpx(activity)
UploadNoGpxCall ==
    /\ pc = "nogpx_call"
    /\ \E tz_status, status \in SinkStatuses :
          LET out == UploadNoGpx(act, tz_status, status)
          IN IF out.raised # NoFailure
             THEN /\ pc' = "failed"
                  /\ failure' = out.raised
                  /\ sink' = sink
             ELSE /\ pc' = "done"
                  /\ failure' = failure
                  /\ sink' = sink \o out.created
    /\ UNCHANGED <<sports, up, gpxfile, requests, inst, pidfile, env, bulk>>
    /\ UNCHANGED memory

InitNoGpx ==
    /\ mode = "upload_no_gpx"
    /\ pc = "nogpx_call"
    /\ source = <<>>
    /\ sink \in SinksOf(OldTimes, 1)
    /\ files = {}
    /\ ga = NoFrame
    /\ activities = <<>>
    /\ cur = NoRaw
    /\ cr = NoCreate
    /\ gear = {}
    /\ run = 1
    /\ prev = "none"
    /\ latest_dt = Epoch
    /\ to_process = <<>>
    /\ cidx = 0
    /\ i = 0
    /\ act \in NoGpsActivities
    /\ w = NoWait
    /\ ret = "none"
    /\ failure = NoFailure
    /\ uploads = <<>>
    /\ pages_log = <<>>
    /\ InitOutside

NextNoGpx == UploadNoGpxCall

SpecNoGpx == InitNoGpx /\ [][NextNoGpx]_vars

-----------------------------------------------------------------------------
(* What the properties below speak of *)

Waiting == pc \in {"wait_enter", "wait_poll", "wait_exit"}

\* what FitTrackee held when this run started: the uploads of the run are the
\* last workouts created
SinkAtStart == SubSeq(sink, 1, Len(sink) - Len(uploads))

\* delete-all, and the last line typed at its prompt a yes
DeleteConfirmed ==
    /\ mode = "delete_all"
    /\ bulk.answers # <<>>
    /\ Last(bulk.answers) \in {"y", "Y"}

\* a workout within 30 minutes of the activity's start, on whatever date
WithinWindow(s, a) ==
    \E k \in 1..Len(s) : a.start - Window < s[k].date /\ s[k].date < a.start + Window

\* the time of the latest of the workouts, or the epoch
Watermark(s) ==
    IF s = <<>> THEN Epoch
    ELSE CHOOSE t \in { s[k].date : k \in 1..Len(s) } :
            \A k \in 1..Len(s) : s[k].date <= t

InSeq(x, s) == \E k \in 1..Len(s) : s[k] = x

\* the first quarter of an hour that is not before t
QuarterFrom(t) ==
    CHOOSE b \in { k * Quarter : k \in 0..(t \div Quarter) + 1 } :
        b >= t /\ b - Quarter < t

-----------------------------------------------------------------------------
(* C1: once an activity is classified, it is a duplicate if FitTrackee holds
   a workout strictly less than 30 minutes from its start, whatever the
   calendar dates of the two, and it is not a duplicate if every workout is
   30 minutes or more away. *)
C1_DuplicateWithinWindow ==
    (mode = "dup_check" /\ pc = "done") =>
        \A k \in 1..Len(activities) :
            InSeq(activities[k], to_process) <=> ~WithinWindow(sink, activities[k])

(* C2: FitTrackee never holds two workouts made from the same Strava
   activity, however the earlier runs ended (completed, failed or killed),
   and a run that follows a completed run uploads nothing. *)
C2_NoSecondUpload ==
    mode = "sync" =>
        /\ \A j, k \in 1..Len(sink) :
              (j # k /\ sink[j].act # 0) => sink[j].act # sink[k].act
        /\ prev = "done" => uploads = <<>>

\* a second run met an activity an earlier run had uploaded, skipped it and
\* completed
C2_Witness ==
    /\ mode = "sync" /\ run = 2 /\ pc = "done" /\ uploads = <<>>
    /\ \E k \in 1..Len(activities), j \in 1..Len(sink) :
          sink[j].act = activities[k].id

(* C3: when a sync run has completed, every activity of Strava that is after
   the watermark and has no workout within 30 minutes in what FitTrackee
   held at the start was uploaded exactly once, unless it has no GPS and a
   type without a sport, and the uploads were made in Strava's order. *)
C3_UploadedOnceInOrder ==
    (mode = "sync" /\ pc = "done") =>
        LET returned == SelectSeq(source, LAMBDA a : a.start > Watermark(SinkAtStart))
            NoGps(a) == a.manual \/ "latlng" \notin a.streams
            Due(a) == /\ ~WithinWindow(SinkAtStart, a)
                      /\ ~(NoGps(a) /\ a.type \notin SportTypes)
        IN /\ \A k \in 1..Len(returned) :
                 Due(returned[k]) =>
                    Cardinality({ m \in 1..Len(uploads) :
                                     uploads[m].act = returned[k].id }) = 1
           /\ \A m, n \in 1..Len(uploads) :
                 m < n => uploads[m].act < uploads[n].act

\* a completed run that uploaded two activities
C3_Witness ==
    mode = "sync" /\ pc = "done" /\ Len(uploads) = 2

(* C4: once sync has asked for the latest workout, the watermark is the time
   of the latest workout FitTrackee held at the start of the run, or the
   epoch, which is before every activity, if it held none; the activities
   are asked for after the watermark, the list returned holds only
   activities after it (all of Strava's if FitTrackee held no workout), and
   no activity at or before it is uploaded. *)
C4_Watermark ==
    (mode = "sync" /\ ga # NoFrame) =>
        /\ latest_dt = Watermark(SinkAtStart)
        /\ ga.after = Some(latest_dt)
        /\ \A k \in 1..Len(source) : Epoch < source[k].start
        /\ \A k \in 1..Len(activities) : activities[k].start > latest_dt
        /\ (SinkAtStart = <<>> /\ pc \in {"sync_classify", "sync_loop", "done"})
              => activities = source
        /\ \A m \in 1..Len(uploads) : source[uploads[m].act].start > latest_dt

\* a run with two old workouts, the later created first, that uploaded an
\* activity after the later one
C4_Witness ==
    /\ mode = "sync" /\ Len(uploads) = 1 /\ Len(SinkAtStart) >= 2
    /\ latest_dt = SinkAtStart[1].date
    /\ SinkAtStart[1].date > SinkAtStart[2].date

(* C5: get_activities(limit=None) receives the pages 1, 2, 3, ... in this
   order; while it runs every page received was non-empty, and when it has
   returned the last page received, and only that one, was empty; the list
   returned is the pages in the order received, which is Strava's list. *)
C5_Pagination ==
    mode = "get_activities" =>
        LET n == Len(pages_log)
            listed == IF ga.after = None THEN Reverse(source)
                      ELSE SelectSeq(source, LAMBDA a : a.start > ga.after[1])
        IN /\ \A k \in 1..n : pages_log[k].page = k
           /\ pc \in {"ga_request", "wait_enter", "wait_poll", "wait_exit"} =>
                 /\ ga.page = n + 1
                 /\ \A k \in 1..n : pages_log[k].r # <<>>
           /\ pc = "done" =>
                 /\ n >= 1
                 /\ \A k \in 1..n : (pages_log[k].r = <<>>) <=> (k = n)
                 /\ activities = Flatten([k \in 1..n |-> pages_log[k].r])
                 /\ activities = listed

\* the call returned after a full page, a short page and the empty page
C5_Witness ==
    /\ mode = "get_activities" /\ pc = "done" /\ Len(pages_log) = 3
    /\ Len(pages_log[1].r) = ga.per_page
    /\ Len(pages_log[2].r) < ga.per_page

(* C6: in sync and in download-all no process ends with a
   TooManyRequestsError or with the exception of a 429 answer of Strava;
   after such an answer the process waits, and then goes on in the loop
   that made the request. *)
C6_RateLimitNeverFails ==
    /\ failure.kind # "TooManyRequestsError"
    /\ ~(failure.origin = "source" /\ failure.status = TooManyRequests)
    /\ w.hit # "none" =>
          /\ Waiting
          /\ ret \in {"ga_request", "sync_loop", "dl_loop"}
          /\ ret = "sync_loop" => mode = "sync"
          /\ ret = "dl_loop" => mode = "download_all"

\* download-all waits after a 429 to the gear request, the four stream
\* requests answered
C6_Witness ==
    /\ mode = "download_all" /\ pc = "wait_poll" /\ ret = "dl_loop"
    /\ cr.step = 5 /\ w.hit = "daily"

(* C7: wait_until_fifteen ends only when the clock has reached the first
   quarter of an hour that is not before the time read when the wait
   started; the time waited for is that quarter of an hour, whichever limit
   was hit; and no request is made during the wait. *)
C7_BackoffUntilQuarter ==
    /\ pc \in {"wait_poll", "wait_exit"} =>
          /\ w.wait_until = QuarterFrom(w.now)
          /\ w.wait_until % Quarter = 0
          /\ w.now <= w.clock
    /\ pc = "wait_exit" => w.clock >= QuarterFrom(w.now)
    /\ Waiting => ret \in {"ga_request", "sync_loop", "dl_loop"}

\* a wait for the daily limit, started 25 seconds before the quarter of an
\* hour, has ended 5 seconds after it
C7_Witness ==
    pc = "wait_exit" /\ w.hit = "daily" /\ w.now = 875 /\ w.clock = 905

(* C8: in the upload loop of sync, during the wait for a rate limit raised in
   item i the index is i and the item taken next is that item; the upload
   requests of a run are made for increasing indexes, each below the
   current index, so for no item twice. *)
C8_ResumeSameItem ==
    mode = "sync" =>
        /\ \A m, n \in 1..Len(uploads) :
              m < n => uploads[m].index < uploads[n].index
        /\ \A m \in 1..Len(uploads) : uploads[m].index < i
        /\ (Waiting /\ ret = "sync_loop") =>
              /\ i < Len(to_process)
              /\ cur = to_process[i + 1]

\* the wait for a rate limit raised in the second item, the first uploaded
C8_Witness ==
    /\ mode = "sync" /\ pc = "wait_exit" /\ ret = "sync_loop"
    /\ i = 1 /\ Len(uploads) = 1

(* C9: in sync, for every manual activity to process whose type has a sport,
   no error is raised while it is in work, and once the index has passed it
   exactly one workout was made for it, through the no-GPS endpoint, with
   the duration from the first to the last sample and the last distance
   value over 1000. *)
C9_ManualUploaded ==
    mode = "sync" =>
        \A k \in 1..Len(to_process) :
            (to_process[k].manual /\ to_process[k].type \in SportTypes) =>
                /\ ~(pc = "failed" /\ failure.origin = "program" /\ i = k - 1)
                /\ k <= i =>
                      /\ Cardinality({ m \in 1..Len(uploads) :
                             uploads[m].index = k - 1 /\ uploads[m].via = "no_gpx" }) = 1
                      /\ \E j \in 1..Len(sink) :
                            /\ sink[j].act = to_process[k].id
                            /\ sink[j].duration = 0
                            /\ sink[j].distance = <<0, MetresPerKm>>

(* C10: create_activity_from_strava, for an activity that is manual or with
   get_streams false, makes no stream request, raises nothing of its own,
   and returns an Activity with the single sample (None, None, start, None,
   None) and the distance 0. *)
C10_NoGpsDefaults ==
    (mode = "create_activity" /\ (cur.manual \/ ~cr.get_streams)) =>
        /\ pc # "cr_stream"
        /\ failure.origin # "program"
        /\ pc = "done" =>
              /\ act.lat = <<None>> /\ act.long = <<None>>
              /\ act.altitude = <<None>> /\ act.velocity = <<None>>
              /\ act.time = <<cur.start>>
              /\ act.distance = Scalar(0)

(* C11: in every upload request of a track file the sport id is not null,
   and it is the default id 1 when the catalog of FitTrackee has no sport
   with the label the mapping expects for the activity's type; no error is
   raised for the missing sport. *)
C11_CatalogFallback ==
    (/\ mode = "upload_gpx"
     /\ cur.type \in SportTypes
     /\ GetSportId(sports, SportLabel(cur.type)) = None) =>
        /\ failure.origin # "program"
        /\ \A k \in 1..Len(requests) :
              requests[k].what = "POST /workouts" =>
                 /\ requests[k].data[1].sport_id # None
                 /\ requests[k].data[1].sport_id = Some(DefaultSportId)

(* C12: upload_gpx of the track file of an activity whose type is not a key
   of the sport mapping raises no error for the type, and the request is
   made with the default sport id. *)
C12_UnmappedTypeFallback ==
    (mode = "upload_gpx" /\ cur.type \notin SportTypes) =>
        /\ failure.kind # "KeyError"
        /\ pc \in {"up_post", "done"} =>
              up.data[1].sport_id = Some(DefaultSportId)

(* C13: an Activity create_activity_from_strava returns after it fetched the
   streams has lat, long, time, altitude and velocity of one length, which
   is at least 1, whichever of the streams Strava has for the activity. *)
C13_SampleLengths ==
    (mode = "create_activity" /\ pc = "done" /\ cr.get_streams) =>
        /\ Len(act.lat) >= 1
        /\ Len(act.long) = Len(act.lat)
        /\ Len(act.time) = Len(act.lat)
        /\ Len(act.altitude) = Len(act.lat)
        /\ Len(act.velocity) = Len(act.lat)

(* C14: the track file written for an Activity with GPS samples, read back
   by upload_gpx, gives the Activity's type as the description, its link as
   the link and its gear note from the comment, with and without gear, and
   these are the values upload_gpx makes its notes of. *)
C14_RoundTrip ==
    mode = "upload_gpx" =>
        /\ pc \in {"ft_init", "up_prepare"} =>
              LET gpx == ParseGpx(gpxfile[1])
              IN /\ gpx.tracks[1].description = Some(act.type)
                 /\ gpx.tracks[1].link = Some(act.link)
                 /\ JsonLoads(gpx.tracks[1].comment[1]).gear_note = act.gear_note
        /\ up.step = 1 =>
              /\ up.activity_type = Some(act.type)
              /\ up.url = Some(act.link)
              /\ up.activity_dict[1].gear_note = act.gear_note
              /\ up.activity_dict[1].type = act.type
              /\ up.data[1].notes.gear_note = GetGearNote(act.gear)

\* upload_gpx has read the track file of an Activity with gear
C14_Witness ==
    /\ mode = "upload_gpx" /\ pc = "up_post" /\ act.gear # None
    /\ up.activity_dict[1].gear_note = Some(<<"Gear used: ", "g1">>)

(* C15: the GPX object as_gpx makes of an Activity with GPS samples has one
   track with one segment, with as many points as the Activity has GPS
   samples, the k-th point holding the k-th latitude, longitude, altitude,
   time and velocity. *)
C15_OnePointPerSample ==
    (mode = "create_activity" /\ pc = "done" /\ act.lat # <<None>>) =>
        LET gpx == AsGpx(act)
        IN /\ Len(gpx.tracks) = 1
           /\ Len(gpx.tracks[1].segments) = 1
           /\ Len(gpx.tracks[1].segments[1].points) = Len(act.lat)
           /\ \A k \in 1..Len(gpx.tracks[1].segments[1].points) :
                 gpx.tracks[1].segments[1].points[k] =
                    [time |-> act.time[k], latitude |-> act.lat[k],
                     longitude |-> act.long[k], elevation |-> act.altitude[k],
                     speed |-> act.velocity[k]]

(* C16: the track file upload_gpx is given carries the Activity as JSON in
   the comment of its track until upload_gpx has read it; when the request
   is made the file has been written again without the comment, so the file
   of every upload request has no comment, while the sport id and the notes
   of the request are those of the type, the link and the gear note read. *)
C16_CommentStripped ==
    mode = "upload_gpx" =>
        /\ pc = "up_prepare" => gpxfile[1].trk[1].cmt # None
        /\ pc = "up_post" => gpxfile[1].trk[1].cmt = None
        /\ \A k \in 1..Len(requests) :
              requests[k].what = "POST /workouts" =>
                 /\ requests[k].file[1].trk[1].cmt = None
                 /\ requests[k].file[1].trk[1].trkseg = AsXml(act).trk[1].trkseg
                 /\ requests[k].data[1].sport_id = up.sport_id_map[act.type]
                 /\ requests[k].data[1].notes =
                       [type |-> Some(act.type), link |-> Some(act.link),
                        gear_note |-> act.gear_note]

\* the upload request of the file of an Activity with gear was made and
\* answered
C16_Witness ==
    /\ mode = "upload_gpx" /\ pc = "done" /\ act.gear_note # None
    /\ Len(requests) = 2 /\ requests[2].what = "POST /workouts"

(* C18: when a required setting is not defined, the process ends with the
   configuration error and no network request, to Strava or to FitTrackee,
   was issued before, also when no token file is written yet. *)
C18_ConfigBeforeNetwork ==
    (mode = "setup_tokens" /\ env.defined # Settings) =>
        /\ requests = <<>>
        /\ pc # "done"
        /\ pc = "failed" => failure.kind = "EnvironmentError"

(* C17: of the instances started against one lock file at most one is past
   check_for_running_instance at any time, whatever the order of their
   steps; every other instance ends with the error of the check. *)
C17_MutualExclusion ==
    mode = "instances" =>
        Cardinality({ p \in Instances : inst[p] = "running" }) <= 1

(* C19: in sync only a 429 answer is followed by a wait and a retry; the
   HTTPError of any other answer that is not 2xx, from Strava or from
   FitTrackee, ends the process; the process that ended so keeps the
   workouts it had uploaded in FitTrackee, and its next step can only be a
   new start of the program, which leaves FitTrackee as it is. *)
C19_HttpErrorAborts ==
    /\ [](mode = "sync" =>
            /\ Waiting => w.hit \in {"fifteen", "daily"}
            /\ failure.kind = "HTTPError" =>
                  /\ pc = "failed"
                  /\ failure.status >= 400 /\ failure.status # TooManyRequests
            /\ pc = "failed" =>
                  \A m \in 1..Len(uploads) :
                      \E j \in 1..Len(sink) : sink[j].act = uploads[m].act)
    /\ [][(mode = "sync" /\ pc = "failed") =>
             (pc' = "sync_start" /\ run' = run + 1 /\ sink' = sink)]_vars

\* sync ended with the HTTPError of a 500 answer to a stream request of its
\* second item, the first uploaded
C19_Witness ==
    /\ mode = "sync" /\ pc = "failed" /\ Len(uploads) = 1 /\ i = 1
    /\ failure = Raised("HTTPError", "source", 500)
    /\ cr.step = 2

(* C20: in download-all no stream or gear is requested, and no track file
   written, for an activity whose output file is in the folder; the folder
   never loses a file; and every activity the loop has passed that is not
   manual has its output file in the folder, a manual one has there its
   output file or the file of that name with ".json" appended. *)
C20_SkipMarker ==
    /\ [](mode = "download_all" =>
            /\ pc \in {"cr_call", "cr_stream", "cr_gear", "dl_write"} =>
                  OutputFile(cur) \notin files
            /\ \A k \in 1..i :
                  IF activities[k].manual = FALSE
                  THEN OutputFile(activities[k]) \in files
                  ELSE \/ OutputFile(activities[k]) \in files
                       \/ JsonFile(activities[k]) \in files)
    /\ [][mode = "download_all" => files \subseteq files']_vars

\* the second run, started after the first was killed, has passed its first
\* activity, which has its output file, without making an Activity of it
C20_Witness ==
    /\ mode = "download_all" /\ run = 2 /\ prev = "killed"
    /\ pc = "dl_loop" /\ i = 1
    /\ activities[1].manual = FALSE
    /\ OutputFile(activities[1]) \in files
    /\ cr = NoCreate

(* C20 as stated: every activity the loop of download-all has passed has its
   output file in the folder. *)
C20_EveryProcessedHasMarker ==
    mode = "download_all" =>
        \A k \in 1..i : OutputFile(activities[k]) \in files

(* C21: a delete request is issued by delete-all only, and only after the
   last line the user typed at the prompt was a yes; every step of another
   operation, and every step of delete-all not confirmed so, leaves the
   workouts FitTrackee held as they were, in their order, with at most new
   ones after them; delete-all answered no leaves FitTrackee unchanged. *)
C21_DeleteOnlyConfirmed ==
    /\ []((\E k \in 1..Len(requests) : requests[k].what = "DELETE /workouts/{id}")
            => DeleteConfirmed)
    /\ [][~DeleteConfirmed' =>
             /\ Len(sink') >= Len(sink)
             /\ SubSeq(sink', 1, Len(sink)) = sink
             /\ mode = "delete_all" => sink' = sink]_vars

\* delete-all, after a line that was neither yes nor no and then a yes, has
\* deleted every workout of the two FitTrackee held
C21_Witness ==
    /\ mode = "delete_all" /\ pc = "done"
    /\ bulk.answers = <<"yes", "Y">>
    /\ Len(bulk.workouts) = 2 /\ bulk.k = 2
    /\ sink = <<>>

(* C22: whenever no instance is running the lock file does not exist, and
   an instance is refused only while another one is running or about to
   write the lock file. *)
C22_LockLifecycle ==
    mode = "instances" =>
        /\ (\A p \in Instances : inst[p] # "running") => pidfile = None
        /\ \A p \in Instances :
              (inst[p] = "refused" /\ pidfile # None) =>
                  \E q \in Instances : inst[q] = "running"

(* C23: over the life of a connector at most one request for a gear id is
   answered 200; a call of get_gear for a cached id makes no request and
   returns the gear; a request that raised leaves the cache as it was; an
   activity without gear id causes no request and has the empty note. *)
C23_GearCache ==
    /\ [](mode = "get_gear" =>
            \A j, k \in 1..Len(requests) :
                (/\ requests[j].data[1].gear_id = requests[k].data[1].gear_id
                 /\ requests[j].data[1].status = 200
                 /\ requests[k].data[1].status = 200) => j = k)
    /\ [][(mode = "get_gear" /\ i' = i + 1) =>
             /\ cur'.gear_id \in gear =>
                   /\ requests' = requests
                   /\ act'.gear = Some(cur'.gear_id)
                   /\ gear' = gear
             /\ cur'.gear_id = NoGear =>
                   /\ requests' = requests
                   /\ act'.gear_note = None
             /\ (requests' # requests /\ Last(requests').data[1].status # 200) =>
                   gear' = gear]_vars

\* the gear g1 was fetched, at the second request for it, and two later
\* calls for g1 made no request
C23_Witness ==
    /\ mode = "get_gear" /\ i = 4 /\ cur.gear_id = "g1"
    /\ Len(requests) = 2
    /\ requests[1].data[1] = [gear_id |-> "g1", status |-> 429]
    /\ requests[2].data[1] = [gear_id |-> "g1", status |-> 200]
    /\ act.id = 4 /\ act.gear = Some("g1")

(* C24: while get_activities waits after a 429 answer to the request of a
   page, and when it makes the request again, its page, page size,
   after-time and accumulated list are what they were at the refused
   request: the page is the one after the pages received, the list is
   those pages in order; the wait returns to the request. *)
C24_IdenticalRetry ==
    /\ [](mode = "get_activities" =>
            (Waiting =>
                /\ ret = "ga_request"
                /\ ga.page = Len(pages_log) + 1
                /\ ga.all_activities =
                      Flatten([k \in 1..Len(pages_log) |-> pages_log[k].r])))
    /\ [][(mode = "get_activities" /\ (Waiting \/ Waiting')) =>
             /\ ga' = ga
             /\ activities' = activities
             /\ pages_log' = pages_log
             /\ pc = "wait_exit" => pc' = "ga_request"]_vars

\* the request of the second page was refused for the fifteen-minute limit,
\* and the wait is over
C24_Witness ==
    /\ mode = "get_activities" /\ pc = "wait_exit" /\ ret = "ga_request"
    /\ w.hit = "fifteen" /\ w.clock >= w.wait_until
    /\ ga.page = 2 /\ Len(pages_log) = 1 /\ ga.all_activities # <<>>

(* C25: the duration of the workout upload_no_gpx creates is the number of
   seconds from the first to the last sample time of the Activity, whatever
   the span. *)
C25_DurationWholeSeconds ==
    (mode = "upload_no_gpx" /\ pc = "done") =>
        Last(sink).duration = Last(act.time) - act.time[1]

(* C26: sync uploads nothing before it has classified every activity
   listed; an activity is in to_process exactly if it has no matching
   workout in what FitTrackee held at the start of the run; streams are
   requested and an upload made for the next item of to_process only, never
   for an activity with a matching workout at the start; a completed run has
   uploaded every item of to_process, unless it has no GPS and a type
   without a sport, whatever was uploaded before it. *)
C26_TwoPhase ==
    mode = "sync" =>
        /\ (\/ pc \in {"sync_start", "ga_request", "sync_classify"}
            \/ (Waiting /\ ret = "ga_request")) => uploads = <<>>
        /\ \A k \in 1..cidx :
              InSeq(activities[k], to_process)
                 <=> ~ActivityHasMatchingWorkout(SinkAtStart, activities[k])
        /\ pc \in {"cr_call", "cr_stream", "cr_gear", "sync_upload"} =>
              /\ cur = to_process[i + 1]
              /\ ~ActivityHasMatchingWorkout(SinkAtStart, cur)
        /\ pc = "done" =>
              /\ i = Len(to_process)
              /\ \A k \in 1..Len(to_process) :
                    \/ \E m \in 1..Len(uploads) : uploads[m].act = to_process[k].id
                    \/ /\ to_process[k].manual \/ "latlng" \notin to_process[k].streams
                       /\ to_process[k].type \notin SportTypes

\* a completed run uploaded two activities that start five minutes apart:
\* the second has a matching workout now, the first one's, and had none at
\* the start
C26_Witness ==
    /\ mode = "sync" /\ pc = "done" /\ Len(uploads) = 2 /\ Len(to_process) = 2
    /\ to_process[2].start - to_process[1].start < Window
    /\ ActivityHasMatchingWorkout(sink, to_process[2])
    /\ ~ActivityHasMatchingWorkout(SinkAtStart, to_process[2])

(* C27: a sync run that is answered 429 only finitely many times, and that
   no exception ends, comes to its end with the index at the length of
   to_process; a 429 answer is always followed by the wait, with the index,
   to_process and the uploads as they were and no exception recorded. *)
C27_Termination ==
    /\ ((<>[](pc # "wait_enter")) /\ [](pc # "failed"))
          => <>(pc = "done" /\ i = Len(to_process))
    /\ [][(pc # "wait_enter" /\ pc' = "wait_enter") =>
             /\ i' = i
             /\ to_process' = to_process
             /\ uploads' = uploads
             /\ failure' = NoFailure]_vars

\* the run was answered 429 at its second item and is waiting, the first
\* item uploaded
C27_Witness ==
    /\ mode = "sync" /\ pc = "wait_poll" /\ ret = "sync_loop"
    /\ Len(to_process) = 2 /\ i = 1 /\ Len(uploads) = 1
    /\ w.clock < w.wait_until

(* C28: in download-all a track file is added to the folder only by the
   write that follows a create_activity_from_strava whose four stream
   requests were all answered, for the activity fetched; a 429 answer while
   an activity is fetched adds no file, leaves the index on that activity
   and the backoff returns to the loop, where the activity, still without a
   file, is fetched from its first request. *)
C28_NoMarkerUnfetched ==
    /\ [](mode = "download_all" =>
            /\ pc = "dl_write" => (cr.step = 5 /\ act.id = cur.id)
            /\ pc \in {"cr_call", "cr_stream", "cr_gear", "dl_write"} =>
                  /\ cur = activities[i + 1]
                  /\ OutputFile(cur) \notin files
            /\ pc = "cr_call" => cr = CreateFrame(TRUE)
            /\ (Waiting /\ ret = "dl_loop") =>
                  /\ cur = activities[i + 1]
                  /\ OutputFile(cur) \notin files)
    /\ [][mode = "download_all" =>
             /\ (\E f \in files' \ files : f.ext = "gpx") =>
                   /\ pc = "dl_write"
                   /\ files' = files \cup {OutputFile(cur)}
             /\ (pc \in {"cr_stream", "cr_gear"} /\ pc' = "wait_enter") =>
                   /\ files' = files
                   /\ i' = i
                   /\ ret' = "dl_loop"
             /\ (pc = "dl_loop" /\ pc' = "cr_call") =>
                   /\ cur' = activities[i + 1]
                   /\ i' = i]_vars

\* the third stream request of the second activity was refused; the wait is
\* over, the first activity has its file and the second has none
C28_Witness ==
    /\ mode = "download_all" /\ pc = "wait_exit" /\ ret = "dl_loop"
    /\ cr.step = 3 /\ i = 1
    /\ OutputFile(activities[1]) \in files
    /\ cur = activities[2]
    /\ OutputFile(cur) \notin files

====
